---- MODULE Spec2Model ----
(***************************************************************************)
(* A model of the GreatFET / libgreat USB driver for the LPC43xx EHCI and  *)
(* simplified-EHCI controller:                                             *)
(*   - the host-mode pool allocator, asynchronous ring, transfer           *)
(*     scheduling and completion reaper (usb_queue_host.c);                *)
(*   - the device-mode standard-request engine, setup intake, endpoint     *)
(*     flush and the append-while-priming handshake (usb.c and the         *)
(*     standard request handlers).                                         *)
(* Every subsystem has its own next-state relation over the shared state.  *)
(***************************************************************************)
EXTENDS Integers, Sequences, FiniteSets, TLC

(***************************************************************************)
(* Sizes.  The pools are scaled down; the list walks are cut after Fuel    *)
(* steps so that a walk over a cyclic list is reported as a hang.          *)
(***************************************************************************)
PoolSize == 3
MaxSchedules == 4

\* Both pools have the same size in the firmware build.
USB_HOST_MAX_QUEUE_HEADS == PoolSize
USB_HOST_MAX_TRANSFER_DESCRIPTORS == PoolSize

QHs == 1..USB_HOST_MAX_QUEUE_HEADS
Transfers == 1..USB_HOST_MAX_TRANSFER_DESCRIPTORS

\* The sentinel queue head inside the peripheral (host->async_queue_head).
SENTINEL == USB_HOST_MAX_QUEUE_HEADS + 1

\* Upper bound on the length of a walk over a well-formed list.
Fuel == USB_HOST_MAX_QUEUE_HEADS + USB_HOST_MAX_TRANSFER_DESCRIPTORS + 2

\* The NULL address.  A dTD pointer is the index of the transfer whose TD it
\* addresses, or TD_TERMINATE when its low (terminate) bit is set.
NULL == 0
TD_TERMINATE == 0
DESCRIPTOR_QH == 1

\* usb_speed_t
USB_SPEED_LOW == 0
USB_SPEED_FULL == 1
USB_SPEED_HIGH == 2
USB_SPEED_SUPER == 3

(***************************************************************************)
(* ehci_link_t: one 32-bit word read three ways (a union): as a pointer    *)
(* (ptr), as a raw word (link), and as the bit-fields terminate (bit 0)    *)
(* and type (bits 1-2).  The word is modelled by its three parts; writing  *)
(* .ptr or .link replaces all three.                                       *)
(***************************************************************************)
Link(p, ty, t) == [ptr |-> p, type |-> ty, term |-> t]

\* A pointer stored through .ptr: an aligned address, type and terminate 0.
PtrTo(p) == Link(p, 0, FALSE)

TERMINATING_LINK == Link(NULL, 0, TRUE)

VARIABLES
    \* ---- host mode: pools and rings (usb_queue_host.c) ----
    queue_head_freelist,   \* head link of the queue-head freelist
    transfer_freelist,     \* head link of the transfer freelist
    qhHoriz,               \* queue_head_pool[i].horizontal
    qhOverlayNext,         \* queue_head_pool[i].overlay.next_dtd_pointer
    qhEndpoint,            \* queue_head_pool[i]: the endpoint characteristics
    asyncHoriz,            \* host->async_queue_head.horizontal
    pending_transfers,     \* host->pending_transfers
    tHoriz,                \* transfer_pool[i].horizontal
    tdNext,                \* transfer_pool[i].td.next_dtd_pointer
    tdActive,              \* transfer_pool[i].td.active
    hwCur,                 \* controller: the TD copied into each overlay
    \* ---- host mode: observations ----
    cbCount,               \* completion callbacks since the transfer was scheduled
    schedSeq,              \* order in which the live transfers were scheduled
    tQh,                   \* queue head each transfer was scheduled on
    nSched,                \* number of usb_host_transfer_schedule calls so far
    cbLog,                 \* callbacks of the last reaper pass, in order
    lastRet,               \* return value of the last usb_host_transfer_schedule
    fault,                 \* the core took a fault (a write through NULL)
    hung,                  \* a list walk did not terminate
    \* ---- device mode: standard requests ----
    active_configuration,  \* device->active_configuration (NULL or a descriptor)
    configuration_index,   \* the static byte of the GET_CONFIGURATION handler
    deviceaddr,            \* the DEVICEADDR register: [usbadr, usbadra]
    portsc_speed,          \* the port speed the controller reports in PORTSC1
    stdReply,              \* what the last standard request scheduled and returned
    \* ---- device mode: registers ----
    endptsetupstat,        \* ENDPTSETUPSTAT: endpoint numbers with a setup packet
    endptprime,            \* ENDPTPRIME: endpoint addresses being primed
    endptflush,            \* ENDPTFLUSH: endpoint addresses being flushed
    endptstat,             \* ENDPTSTAT: endpoint addresses that are ready
    usbcmd_atdtw,          \* the ATDTW bit of USBCMD
    endptctrl,             \* device->reg->endptctrl[i]: the bits that are set
    \* ---- device mode: endpoints, queue heads and descriptors ----
    qhSetup,               \* the setup bytes in each OUT queue head
    epSetup,               \* endpoint->setup, by endpoint address
    epSetupComplete,       \* endpoint->setup_complete is non-NULL, by number
    dqhNext,               \* queue head next_dtd_pointer, by endpoint address
    dtdNext,               \* td->next_dtd_pointer
    dtdActive,             \* the active bit of the TD's status
    queueTail,             \* the tail of each endpoint's queue, as the caller knows it
    \* ---- device mode: the controller ----
    hwTd,                  \* the TD the controller works on, by endpoint address
    hwHazard,              \* endpoints whose state the controller is changing
    hwLatched,             \* the next pointer the controller has read
    \* ---- device mode: the ISR in usb_check_for_setup_events ----
    isrPc,                 \* "idle", "scan" (loop head) or "body"
    isrStat,               \* the local snapshot of ENDPTSETUPSTAT
    isrI,                  \* the loop variable i
    isrStep,               \* the statement of the loop body
    isrFlushStep,          \* the statement of usb_flush_primed_endpoints, or 0
    isrLog,                \* what the pass has done so far
    \* ---- device mode: usb_endpoint_schedule_append in the main context ----
    appPc,                 \* the statement the call is at, or "idle"
    appEp,                 \* endpoint (its address)
    appTail,               \* tail_td
    appNew,                \* new_td
    appDone,               \* the local `done`
    appRetried,            \* the loop of the current call ran more than once
    \* ---- device mode: counters that bound the model ----
    nSetups,               \* setup packets received so far
    nTds,                  \* transfer descriptors handed out so far
    \* ---- host mode: the pools on their own ----
    poolNq,                \* USB_HOST_MAX_QUEUE_HEADS of the build
    poolNt,                \* USB_HOST_MAX_TRANSFER_DESCRIPTORS of the build
    poolPc,                \* statement of usb_host_initialize_storage_pools
    poolI,                 \* the loop variable i
    poolOutside,           \* writes that fell outside a pool array
    heldQh,                \* queue heads the caller holds
    heldT,                 \* transfers the caller holds
    \* ---- host mode: the byte counters of the transfers ----
    tdTotalBytes,          \* transfer_pool[i].td.total_bytes (15 bits)
    tdHalted,              \* transfer_pool[i].td.halted
    tdTransactionError,    \* transfer_pool[i].td.transaction_error
    tMaximumLength,        \* transfer_pool[i].maximum_length
    hwMoved,               \* controller: bytes it moved for the TD
    cbArgs,                \* what the last completion callback of the transfer received
    \* ---- device mode: the interrupt status register ----
    usbsts,                \* device->reg->usbsts: the status bits that are set
    usbintr,               \* device->reg->usbintr: the interrupts that are enabled
    gsPc,                  \* usb_get_status: "idle", or "read" between read and write-back
    gsStatus,              \* usb_get_status: its local 'status'
    gsReturned,            \* what the last call of usb_get_status returned
    gsRaised,              \* bits the controller raised since the last read
    \* ---- device mode: usb_device_isr ----
    endptcomplete,         \* device->reg->endptcomplete, a set of endpoint addresses
    epTransferComplete,    \* endpoint->transfer_complete is non-NULL, by address
    dPc,                   \* usb_device_isr: where it is
    dCall,                 \* usb_device_isr: which of its two calls it is in
    dI,                    \* the loop index i
    dIn,                   \* usb_check_for_transfer_events: at the IN half of the body
    dSnapshot,             \* the register value read on entering the call
    dLog,                  \* callbacks of the invocation, in order
    nCompletions,          \* number of completion events so far
    \* ---- device mode: observations of the endpoint control operations ----
    lastOp,                \* the last operation, and what it found
    configuration_changed_callback,
                           \* device->configuration_changed_callback is non-NULL
    device_qualifier_descriptor,
                           \* device->device_qualifier_descriptor
    string_descriptors,    \* device->string_descriptors: the entries in memory
    configurations,        \* device->full_speed_configurations and
                           \* device->high_speed_configurations: the arrays
    configuration_count,   \* device->device_descriptor->configuration_count
    hwAddress,             \* the address the controller answers on
    \* ---- device mode: usb_endpoint_descriptor ----
    epdPc,                 \* "idle", "walk" (in the loop) or "returned"
    epdConfiguration,      \* endpoint->device->active_configuration: the bytes
                           \* it points at, as the descriptors laid end to end
    epdAddress,            \* descriptor_address - (uintptr_t)configuration
    epdRemaining,          \* descriptor_remaining
    epdExamined,           \* the offsets whose descriptor the loop has read
    epdReturn,             \* the offset of the descriptor returned, or NULL
    \* ---- host mode: usb_host_transfer_schedule, statement by statement ----
    schPc,                 \* "idle", "advance" (allocated is read) or "fill"
    schQh,                 \* the qh argument of the call in progress
    schAllocated,          \* usb_host_allocate_from_freelist: allocated
    \* ---- device mode: the two controllers (usb_peripherals[0] and [1]) ----
    controllers,           \* per controller: endpoints enabled, address,
                           \* configuration, and the USB-reset status bit
    \* ---- device mode: the NAK registers ----
    endptnak,              \* ENDPTNAK: the bits that are set
    endptnaken,            \* ENDPTNAKEN: the bits that are set
    \* ---- comms: one command transaction and its response ----
    transPc,               \* "none", "handling" (the verb runs) or "started"
    trans,                 \* data_out_length and data_out_max_length
    data_out,              \* the caller's position, an offset in trans->data_out
    dataOutWritten,        \* the offsets of trans->data_out that were written
    \* ---- Rhododendron: the SCT of the packetization engine ----
    sctEvent,              \* reg->event[n]: enabled_in_state, load_state, next_state
    halt_sct,              \* reg->control.halt_sct
    sctState,              \* reg->state
    event_occurred,        \* reg->event_occurred: the bits that are set
    sctNxt,                \* the level of the NXT pin
    sctCaptured,           \* the capture events that fired, in order
    sctEndOfPackets,       \* the falling edges of DIR since the engine started
    new_delineation_data_available

hostVars == <<queue_head_freelist, transfer_freelist, qhHoriz, qhOverlayNext,
              qhEndpoint, asyncHoriz, pending_transfers, tHoriz, tdNext, tdActive, hwCur,
              cbCount, schedSeq, tQh, nSched, cbLog, lastRet, fault, hung>>

stdVars == <<active_configuration, configuration_index, deviceaddr,
             portsc_speed, stdReply>>

regVars == <<endptsetupstat, endptprime, endptflush, endptstat, usbcmd_atdtw,
             endptctrl>>

epVars == <<qhSetup, epSetup, epSetupComplete>>

tdVars == <<dqhNext, dtdNext, dtdActive, queueTail>>

hwVars == <<hwTd, hwHazard, hwLatched>>

isrVars == <<isrPc, isrStat, isrI, isrStep, isrFlushStep, isrLog>>

appVars == <<appPc, appEp, appTail, appNew, appDone, appRetried>>

devVars == <<stdVars, regVars, epVars, tdVars, hwVars, isrVars, appVars,
             nSetups, nTds>>

poolVars == <<poolNq, poolNt, poolPc, poolI, poolOutside, heldQh, heldT>>

bytesVars == <<tdTotalBytes, tdHalted, tdTransactionError, tMaximumLength,
               hwMoved, cbArgs>>

statusVars == <<usbsts, usbintr, gsPc, gsStatus, gsReturned, gsRaised>>

irqVars == <<endptcomplete, epTransferComplete, dPc, dCall, dI, dIn, dSnapshot, dLog,
             nCompletions>>

walkVars == <<epdPc, epdConfiguration, epdAddress, epdRemaining, epdExamined,
              epdReturn>>

\* The state of the operations that run apart from the request engine.
schVars == <<schPc, schQh, schAllocated>>

nakVars == <<endptnak, endptnaken>>

commsVars == <<transPc, trans, data_out, dataOutWritten>>

sctVars == <<sctEvent, halt_sct, sctState, event_occurred, sctNxt, sctCaptured,
             sctEndOfPackets, new_delineation_data_available>>

auxVars == <<walkVars, schVars, controllers, nakVars, commsVars, sctVars>>

\* The descriptor tables of the device.
descriptorTables == <<configuration_changed_callback, device_qualifier_descriptor,
                      string_descriptors, configurations, configuration_count>>

\* The fields of the device that are set when it is constructed, and what
\* no request, reset or endpoint operation touches.
deviceFields == <<descriptorTables, auxVars>>

ctrlVars == <<lastOp, deviceFields, hwAddress>>

\* What the operations that run apart from the request engine leave alone.
apartFrame == <<devVars, poolVars, bytesVars, statusVars, irqVars,
                descriptorTables, hwAddress, nakVars>>

walkFrame == <<hostVars, apartFrame, lastOp, schVars, controllers, commsVars,
               sctVars>>

scheduleFrame == <<apartFrame, lastOp, walkVars, controllers, commsVars, sctVars>>

controllersFrame == <<hostVars, apartFrame, walkVars, schVars, commsVars, sctVars>>

commsFrame == <<hostVars, apartFrame, lastOp, walkVars, schVars, controllers,
                sctVars>>

sctFrame == <<hostVars, apartFrame, lastOp, walkVars, schVars, controllers,
              commsVars>>

extVars == <<poolVars, bytesVars, statusVars, irqVars, ctrlVars>>

\* What a bus reset leaves alone outside the device state.
resetFrame == <<hostVars, poolVars, bytesVars, usbintr, gsPc, gsStatus, gsReturned,
                gsRaised, epTransferComplete, dPc, dCall, dI, dIn, dSnapshot, dLog,
                nCompletions>>

vars == <<hostVars, devVars, extVars>>

(***************************************************************************)
(* List primitives.                                                        *)
(***************************************************************************)
next_link(link) == IF link.term THEN NULL ELSE link.ptr

\* The nodes reached from a head link, in order, cut after `fuel` nodes.
RECURSIVE Chain(_, _, _)
Chain(head, cells, fuel) ==
    IF next_link(head) = NULL \/ fuel = 0 THEN <<>>
    ELSE <<next_link(head)>> \o Chain(cells[next_link(head)], cells, fuel - 1)

Range(s) == {s[i] : i \in 1..Len(s)}

\* How often node x occurs on the list.
Occurrences(x, s) == Cardinality({i \in 1..Len(s) : s[i] = x})

(***************************************************************************)
(* The pool allocator.  A freelist is a head link plus the horizontal      *)
(* cells of the pool; both operators return the new head and cells.        *)
(***************************************************************************)
\* As usb_host_allocate_from_freelist, but the allocated element keeps the
\* freelist link it carried.
allocate_without_clearing_link(freelist_head, cells) ==
    IF freelist_head.term
    THEN [allocated |-> NULL, head |-> freelist_head, cells |-> cells]
    ELSE [allocated |-> freelist_head.ptr,
          head      |-> cells[freelist_head.ptr],
          cells     |-> cells]

usb_host_allocate_from_freelist(freelist_head, cells) ==
    IF freelist_head.term
    THEN [allocated |-> NULL, head |-> freelist_head, cells |-> cells]
    ELSE LET allocated == freelist_head.ptr IN
         [allocated |-> allocated,
          \* freelist_head->ptr = allocated->ptr copies the whole word
          head      |-> cells[allocated],
          \* allocated->link = 0; allocated->terminate = 1
          cells     |-> [cells EXCEPT ![allocated] = TERMINATING_LINK]]

usb_host_add_to_list(list_head, cells, link) ==
    [head  |-> PtrTo(link),
     cells |-> [cells EXCEPT ![link] = list_head]]

(***************************************************************************)
(* usb_host_initialize_storage_pools, for pools of nq queue heads and nt   *)
(* transfers.  The pools are static storage: a cell the function does not  *)
(* write is zero (a NULL pointer whose terminate bit is clear).  The last  *)
(* statement indexes transfer_pool with the queue-head count.              *)
(***************************************************************************)
ZERO_LINK == Link(NULL, 0, FALSE)

InitialQueueHeadPool(nq) ==
    [i \in 1..nq |-> IF i < nq THEN PtrTo(i + 1) ELSE TERMINATING_LINK]

InitialTransferPool(nq, nt) ==
    [i \in 1..nt |-> IF i = nq THEN TERMINATING_LINK
                     ELSE IF i < nt THEN PtrTo(i + 1)
                     ELSE ZERO_LINK]

(***************************************************************************)
(* The asynchronous ring.  Horizontal links of queue heads address the     *)
(* pool queue heads 1..USB_HOST_MAX_QUEUE_HEADS or the sentinel.  The ring *)
(* operators take the queue-head cells qc and the sentinel's link ah.      *)
(***************************************************************************)
HorizOf(q, qc, ah) == IF q = SENTINEL THEN ah ELSE qc[q]

next_qh(q, qc, ah) == next_link(HorizOf(q, qc, ah))

\* The loop of usb_host_find_endpoint_queue_predecessor, with the cursor at qh.
RECURSIVE FindPredecessorFrom(_, _, _, _, _)
FindPredecessorFrom(qh, target, qc, ah, fuel) ==
    IF next_qh(qh, qc, ah) = SENTINEL \/ fuel = 0 THEN NULL
    ELSE IF HorizOf(qh, qc, ah).ptr = target THEN qh
    ELSE IF HorizOf(qh, qc, ah).term \/ HorizOf(qh, qc, ah).ptr = NULL THEN NULL
    ELSE FindPredecessorFrom(next_qh(qh, qc, ah), target, qc, ah, fuel - 1)

usb_host_find_endpoint_queue_predecessor(target, qc, ah) ==
    FindPredecessorFrom(SENTINEL, target, qc, ah, Fuel)

\* As usb_host_endpoint_in_asynch_queue, but no queue head is ever found.
never_in_asynch_queue(qh, qc, ah) == FALSE

usb_host_endpoint_in_asynch_queue(qh, qc, ah) ==
    usb_host_find_endpoint_queue_predecessor(qh, qc, ah) # NULL

\* The queue heads the controller meets when it follows the ring from q.
RECURSIVE RingFrom(_, _, _, _)
RingFrom(q, qc, ah, fuel) ==
    IF fuel = 0 \/ next_qh(q, qc, ah) = NULL \/ next_qh(q, qc, ah) = SENTINEL
    THEN {}
    ELSE {next_qh(q, qc, ah)} \cup RingFrom(next_qh(q, qc, ah), qc, ah, fuel - 1)

InRing(q) == q \in RingFrom(SENTINEL, qhHoriz, asyncHoriz, Fuel)

OnQueueHeadFreelist(q) ==
    q \in Range(Chain(queue_head_freelist, qhHoriz, Fuel))

OnTransferFreelist(t) ==
    t \in Range(Chain(transfer_freelist, tHoriz, Fuel))

PendingList == Chain(pending_transfers, tHoriz, Fuel)

OnPendingList(t) == t \in Range(PendingList)

(***************************************************************************)
(* The endpoint characteristics of a queue head (EHCI 3.6, DWord 2).       *)
(***************************************************************************)
\* The speed bits taken to be the value of the usb_speed_t enumerator.
speed_bits_are_enumerator(endpoint_speed) ==
    endpoint_speed

\* The function returns uint8_t: -1 is 255.
get_endpoint_speed_bits(endpoint_speed) ==
    CASE endpoint_speed = USB_SPEED_FULL -> 0
      [] endpoint_speed = USB_SPEED_LOW  -> 1
      [] endpoint_speed = USB_SPEED_HIGH -> 2
      [] OTHER -> 255

\* The bit-fields usb_host_initialize_queue_head writes, each cut to its width.
usb_host_initialize_queue_head(device_address, endpoint_number, endpoint_speed, is_control_endpoint, handle_data_toggle, max_packet_size) ==
    [device_address        |-> device_address % 128,
     endpoint_number       |-> endpoint_number % 16,
     endpoint_speed        |-> get_endpoint_speed_bits(endpoint_speed) % 4,
     data_toggle_control   |-> IF handle_data_toggle THEN 0 ELSE 1,
     head_reclamation_flag |-> 0,
     max_packet_length     |-> max_packet_size % 2048,
     control_endpoint_flag |-> IF endpoint_speed = USB_SPEED_HIGH THEN 0
                               ELSE IF is_control_endpoint THEN 1 ELSE 0,
     \* qh->overlay.alternate_next_dtd_pointer = TERMINATING_LINK
     alternate_next_dtd_pointer |-> TD_TERMINATE]

\* A queue head of the (static, zeroed) pool before it is set up.
ZERO_ENDPOINT ==
    [device_address |-> 0, endpoint_number |-> 0, endpoint_speed |-> 0,
     data_toggle_control |-> 0, head_reclamation_flag |-> 0,
     max_packet_length |-> 0, control_endpoint_flag |-> 0,
     alternate_next_dtd_pointer |-> TD_TERMINATE]

(***************************************************************************)
(* The state after usb_host_initialize_storage_pools and the host          *)
(* bring-up: full freelists, an empty pending list and a ring that holds   *)
(* the sentinel linked to itself.                                          *)
(***************************************************************************)
InitHost ==
    /\ queue_head_freelist = PtrTo(1)
    /\ transfer_freelist = PtrTo(1)
    /\ qhHoriz = InitialQueueHeadPool(USB_HOST_MAX_QUEUE_HEADS)
    /\ tHoriz = InitialTransferPool(USB_HOST_MAX_QUEUE_HEADS,
                                    USB_HOST_MAX_TRANSFER_DESCRIPTORS)
    /\ qhOverlayNext = [q \in QHs |-> TD_TERMINATE]
    /\ qhEndpoint = [q \in QHs |-> ZERO_ENDPOINT]
    /\ asyncHoriz = Link(SENTINEL, DESCRIPTOR_QH, FALSE)
    /\ pending_transfers = TERMINATING_LINK
    /\ tdNext = [t \in Transfers |-> TD_TERMINATE]
    /\ tdActive = [t \in Transfers |-> FALSE]
    /\ hwCur = [q \in QHs |-> NULL]
    /\ cbCount = [t \in Transfers |-> 0]
    /\ schedSeq = [t \in Transfers |-> 0]
    /\ tQh = [t \in Transfers |-> NULL]
    /\ nSched = 0
    /\ cbLog = <<>>
    /\ lastRet = 0
    /\ fault = FALSE
    /\ hung = FALSE

(***************************************************************************)
(* Queue heads.                                                            *)
(***************************************************************************)
\* usb_host_allocate_queue_head()
AllocateQueueHead ==
    LET r == usb_host_allocate_from_freelist(queue_head_freelist, qhHoriz) IN
    /\ queue_head_freelist' = r.head
    /\ qhHoriz' = r.cells
    /\ UNCHANGED <<transfer_freelist, qhOverlayNext, qhEndpoint, asyncHoriz,
                   pending_transfers, tHoriz, tdNext, tdActive, hwCur, cbCount,
                   schedSeq, tQh, nSched, cbLog, lastRet, fault, hung>>

\* usb_host_free_queue_head(to_free): "should not be used on an active
\* queue", so the caller passes a queue head it holds and that is not in the
\* ring.
FreeQueueHead(to_free) ==
    /\ ~OnQueueHeadFreelist(to_free)
    /\ ~InRing(to_free)
    /\ LET r == usb_host_add_to_list(queue_head_freelist, qhHoriz, to_free) IN
       /\ queue_head_freelist' = r.head
       /\ qhHoriz' = r.cells
    /\ UNCHANGED <<transfer_freelist, qhOverlayNext, qhEndpoint, asyncHoriz,
                   pending_transfers, tHoriz, tdNext, tdActive, hwCur, cbCount,
                   schedSeq, tQh, nSched, cbLog, lastRet, fault, hung>>

\* The ring splice of usb_host_set_up_asynchronous_endpoint_queue: the new
\* cells and sentinel link when qh is not yet in the ring.
SpliceAfterSentinel(qh, qc, ah) ==
    [cells |-> [qc EXCEPT ![qh] = ah],
     \* async_queue_head.horizontal.ptr = &qh->horizontal; .type = DESCRIPTOR_QH
     async |-> Link(qh, DESCRIPTOR_QH, FALSE)]

\* usb_host_set_up_asynchronous_endpoint_queue(host, qh, ...): qh is NULL or
\* a queue head the caller holds.
usb_host_set_up_asynchronous_endpoint_queue(qhArg, device_address, endpoint_number, endpoint_speed, is_control_endpoint, handle_data_toggle, max_packet_size) ==
    LET a  == usb_host_allocate_from_freelist(queue_head_freelist, qhHoriz)
        qh == IF qhArg = NULL THEN a.allocated ELSE qhArg
        qc == IF qhArg = NULL THEN a.cells ELSE qhHoriz
        fl == IF qhArg = NULL THEN a.head ELSE queue_head_freelist
    IN
    IF qh = NULL
    THEN UNCHANGED <<queue_head_freelist, qhHoriz, asyncHoriz, qhOverlayNext,
                     qhEndpoint>>
    ELSE
      /\ queue_head_freelist' = fl
      /\ qhEndpoint' = [qhEndpoint EXCEPT ![qh] =
             usb_host_initialize_queue_head(device_address, endpoint_number,
                 endpoint_speed, is_control_endpoint, handle_data_toggle,
                 max_packet_size)]
      \* usb_host_initialize_queue_head: the overlay's pointers terminate
      /\ qhOverlayNext' = [qhOverlayNext EXCEPT ![qh] = TD_TERMINATE]
      /\ IF ~usb_host_endpoint_in_asynch_queue(qh, qc, asyncHoriz)
         THEN LET s == SpliceAfterSentinel(qh, qc, asyncHoriz) IN
              /\ qhHoriz' = s.cells
              /\ asyncHoriz' = s.async
         ELSE /\ qhHoriz' = qc
              /\ asyncHoriz' = asyncHoriz

SetUpEndpoint(qhArg, endpoint_speed, is_control_endpoint) ==
    /\ qhArg # NULL => ~OnQueueHeadFreelist(qhArg)
    /\ usb_host_set_up_asynchronous_endpoint_queue(qhArg, 5, 1, endpoint_speed,
           is_control_endpoint, TRUE, 512)
    /\ UNCHANGED <<transfer_freelist, pending_transfers, tHoriz, tdNext,
                   tdActive, hwCur, cbCount, schedSeq, tQh, nSched, cbLog,
                   lastRet, fault, hung>>

(***************************************************************************)
(* Transfers.                                                              *)
(***************************************************************************)
\* The walk of usb_host_transfer_schedule to the TD whose next pointer
\* terminates, started at TD t; NULL when the walk does not end.
RECURSIVE TailOf(_, _, _)
TailOf(t, nx, fuel) ==
    IF fuel = 0 THEN NULL
    ELSE IF nx[t] = TD_TERMINATE THEN t
    ELSE TailOf(nx[t], nx, fuel - 1)

\* usb_host_transfer_schedule(host, qh, ...) once usb_host_allocate_transfer
\* has returned the transfer a.allocated.
ScheduleAllocated(qh, a) ==
    LET transfer == a.allocated
        \* td->next_dtd_pointer = TERMINATING_LINK; td->active = 1
        nx   == [tdNext EXCEPT ![transfer] = TD_TERMINATE]
        \* usb_host_add_transfer_to_pending_list(host, transfer)
        p    == usb_host_add_to_list(pending_transfers, a.cells, transfer)
        tail == IF qhOverlayNext[qh] = TD_TERMINATE THEN NULL
                ELSE TailOf(qhOverlayNext[qh], nx, Fuel)
    IN
    /\ transfer_freelist' = a.head
    /\ tHoriz' = p.cells
    /\ pending_transfers' = p.head
    /\ tdActive' = [tdActive EXCEPT ![transfer] = TRUE]
    /\ IF qhOverlayNext[qh] = TD_TERMINATE
       THEN /\ qhOverlayNext' = [qhOverlayNext EXCEPT ![qh] = transfer]
            /\ tdNext' = nx
            /\ hung' = hung
       ELSE IF tail = NULL
       THEN /\ UNCHANGED qhOverlayNext
            /\ tdNext' = nx
            /\ hung' = TRUE
       ELSE /\ UNCHANGED qhOverlayNext
            /\ tdNext' = [nx EXCEPT ![tail] = transfer]
            /\ hung' = hung
    /\ cbCount' = [cbCount EXCEPT ![transfer] = 0]
    /\ schedSeq' = [schedSeq EXCEPT ![transfer] = nSched + 1]
    /\ tQh' = [tQh EXCEPT ![transfer] = qh]
    /\ lastRet' = 0
    /\ fault' = fault

\* usb_host_transfer_schedule when the freelist is empty:
\* usb_host_allocate_transfer clears transfer->td before the caller tests
\* the pointer, so the memset goes through NULL.  The write lands in the
\* memory mapped at address 0: it is dropped, or the core faults.
ScheduleExhausted(outcome) ==
    /\ fault' = (outcome = "fault")
    /\ lastRet' = IF outcome = "fault" THEN lastRet ELSE -1
    /\ UNCHANGED <<transfer_freelist, tHoriz, pending_transfers, tdActive,
                   qhOverlayNext, tdNext, hung, cbCount, schedSeq, tQh>>

usb_host_transfer_schedule(qh) ==
    /\ InRing(qh)
    /\ nSched < MaxSchedules
    /\ nSched' = nSched + 1
    /\ LET a == usb_host_allocate_from_freelist(transfer_freelist, tHoriz) IN
       IF a.allocated = NULL
       THEN \E outcome \in {"dropped", "fault"} : ScheduleExhausted(outcome)
       ELSE ScheduleAllocated(qh, a)
    /\ UNCHANGED <<queue_head_freelist, qhHoriz, qhEndpoint, asyncHoriz, hwCur,
                   cbLog>>

\* The controller fetches the next TD of a queue head of the ring into the
\* overlay: the overlay now carries that TD's next pointer.
HwFetch(q) ==
    /\ InRing(q)
    /\ hwCur[q] = NULL
    /\ qhOverlayNext[q] # TD_TERMINATE
    /\ tdActive[qhOverlayNext[q]]
    /\ hwCur' = [hwCur EXCEPT ![q] = qhOverlayNext[q]]
    /\ qhOverlayNext' = [qhOverlayNext EXCEPT ![q] = tdNext[qhOverlayNext[q]]]
    /\ UNCHANGED <<queue_head_freelist, transfer_freelist, qhHoriz, qhEndpoint,
                   asyncHoriz, pending_transfers, tHoriz, tdNext, tdActive, cbCount,
                   schedSeq, tQh, nSched, cbLog, lastRet, fault, hung>>

\* The controller finishes the TD in the overlay and writes its status back:
\* the active bit clears.
HwRetire(q) ==
    /\ hwCur[q] # NULL
    /\ tdActive' = [tdActive EXCEPT ![hwCur[q]] = FALSE]
    /\ hwCur' = [hwCur EXCEPT ![q] = NULL]
    /\ UNCHANGED <<queue_head_freelist, transfer_freelist, qhHoriz, qhEndpoint,
                   qhOverlayNext, asyncHoriz, pending_transfers, tHoriz, tdNext,
                   cbCount, schedSeq, tQh, nSched, cbLog, lastRet, fault, hung>>

(***************************************************************************)
(* The reaper.  The loop state: previous (a link cell: NULL stands for     *)
(* &host->pending_transfers, t for &transfer_pool[t].horizontal), link,    *)
(* the two list heads, the transfer cells, and what the callbacks saw.     *)
(***************************************************************************)
Bump(n) == IF n < 2 THEN n + 1 ELSE n

\* One iteration of the loop on a completed transfer.
ReapCompleted(st) ==
    LET transfer == st.link
        \* previous->link = transfer->horizontal.link
        word == st.cells[transfer]
        pend == IF st.previous = NULL THEN word ELSE st.pending
        c1   == IF st.previous = NULL THEN st.cells
                ELSE [st.cells EXCEPT ![st.previous] = word]
        \* previous = link; link = next_link(link)
        nxt  == next_link(c1[transfer])
        \* usb_host_free_transfer(transfer)
        f    == usb_host_add_to_list(st.freelist, c1, transfer)
    IN [previous |-> transfer, link |-> nxt, pending |-> pend,
        freelist |-> f.head, cells |-> f.cells,
        count |-> [st.count EXCEPT ![transfer] = Bump(@)],
        log |-> Append(st.log, [transfer |-> transfer, seq |-> schedSeq[transfer],
                                qh |-> tQh[transfer]]),
        hung |-> FALSE]

\* One iteration of the loop on a transfer that is still active.
ReapActive(st) ==
    [st EXCEPT !.previous = st.link, !.link = next_link(st.cells[st.link])]

RECURSIVE ReapLoop(_, _)
ReapLoop(st, fuel) ==
    IF st.link = NULL THEN st
    ELSE IF fuel = 0 THEN [st EXCEPT !.hung = TRUE]
    ELSE IF ~tdActive[st.link] THEN ReapLoop(ReapCompleted(st), fuel - 1)
    ELSE ReapLoop(ReapActive(st), fuel - 1)

\* usb_host_handle_asynchronous_transfer_complete(host)
usb_host_handle_asynchronous_transfer_complete ==
    LET st == ReapLoop([previous |-> NULL,
                        link     |-> next_link(pending_transfers),
                        pending  |-> pending_transfers,
                        freelist |-> transfer_freelist,
                        cells    |-> tHoriz,
                        count    |-> cbCount,
                        log      |-> <<>>,
                        hung     |-> FALSE], Fuel)
    IN
    /\ pending_transfers' = st.pending
    /\ transfer_freelist' = st.freelist
    /\ tHoriz' = st.cells
    /\ cbCount' = st.count
    /\ cbLog' = st.log
    /\ hung' = st.hung
    /\ UNCHANGED <<queue_head_freelist, qhHoriz, qhOverlayNext, qhEndpoint,
                   asyncHoriz, tdNext, tdActive, hwCur, schedSeq, tQh, nSched, lastRet,
                   fault>>

(***************************************************************************)
(* Device mode: the standard-request engine.  A setup packet is the eight  *)
(* bytes the controller leaves in the queue head; usb_copy_setup turns     *)
(* them into the endpoint's usb_setup_t.                                   *)
(***************************************************************************)
NumConfigurations == 2

USB_STANDARD_REQUEST_GET_STATUS == 0
USB_STANDARD_REQUEST_SET_FEATURE == 3
USB_STANDARD_REQUEST_SET_ADDRESS == 5
USB_STANDARD_REQUEST_GET_DESCRIPTOR == 6
USB_STANDARD_REQUEST_GET_CONFIGURATION == 8
USB_STANDARD_REQUEST_SET_CONFIGURATION == 9

\* The name of usb_standard_request_unhandled among the handlers, which are
\* named by their request codes.
UNHANDLED == 256

USB_REQUEST_STATUS_OK == 0
USB_REQUEST_STATUS_STALL == 1

\* usb_copy_setup(dst, src): src is the byte block src[0..7] (here 1..8).
\* value, index and length are the 16-bit little-endian views of the unions.
usb_copy_setup(src) ==
    [request_type |-> src[1],
     request      |-> src[2],
     value_l      |-> src[3],
     value_h      |-> src[4],
     index_l      |-> src[5],
     index_h      |-> src[6],
     length_l     |-> src[7],
     length_h     |-> src[8],
     length       |-> src[7] + 256 * src[8]]

\* The bit-fields of usb_setup_t that share the byte of request_type:
\* direction : 1, type : 2, recipient : 5, in the order of their declaration,
\* the first in the least significant bit.
setup_direction(setup) == setup.request_type % 2

setup_type(setup) == (setup.request_type \div 2) % 4

setup_recipient(setup) == (setup.request_type \div 8) % 32

\* The setup packets a host sends in the model: GET_STATUS, SET_FEATURE,
\* SET_ADDRESS, SET_CONFIGURATION of every value up to one past the last
\* configuration, and GET_CONFIGURATION with wLength 0, 1, 2 and 257.
SetupPackets ==
    {<<128, USB_STANDARD_REQUEST_GET_STATUS, 0, 0, 0, 0, 2, 0>>,
     <<0, USB_STANDARD_REQUEST_SET_FEATURE, 1, 0, 0, 0, 0, 0>>,
     <<0, USB_STANDARD_REQUEST_SET_ADDRESS, 5, 0, 0, 0, 0, 0>>}
    \cup {<<0, USB_STANDARD_REQUEST_SET_CONFIGURATION, v, 0, 0, 0, 0, 0>> :
             v \in 0..(NumConfigurations + 1)}
    \cup {<<128, USB_STANDARD_REQUEST_GET_CONFIGURATION, 0, 0, 0, 0, l, h>> :
             l \in 0..2, h \in {0}}
    \cup {<<128, USB_STANDARD_REQUEST_GET_CONFIGURATION, 0, 0, 0, 0, 1, 1>>}

\* The configuration descriptors of the device, one pool per speed.  A pool
\* is the array of pointers up to and with its NULL terminator, and the
\* empty array stands for the pool pointer that is NULL; a pointer of the
\* array is the bConfigurationValue of its descriptor.  A pointer to a descriptor is its
\* pool and index; NULL_CONFIGURATION is the NULL one.
ConfigurationPool(speed) == configurations[speed]

\* The pools of the firmware and its configuration_count: the i-th
\* descriptor of either pool has the value i.
FirmwareConfigurations ==
    [speed \in {USB_SPEED_FULL, USB_SPEED_HIGH} |->
        [i \in 1..NumConfigurations |-> i] \o <<NULL>>]

NULL_CONFIGURATION == [pool |-> NULL, index |-> NULL]

\* What a read through the NULL terminator of a pool stands for.
WILD_CONFIGURATION == [pool |-> NULL, index |-> -1]

ConfigurationValue(config) == ConfigurationPool(config.pool)[config.index]

usb_current_device_speed ==
    IF portsc_speed = USB_SPEED_HIGH THEN USB_SPEED_HIGH ELSE USB_SPEED_FULL

\* The loop of _usb_find_configuration_descriptor from descriptor i on: it
\* runs over configuration_count entries and reads the value of each through
\* its pointer, the NULL terminator included when it comes to it.
RECURSIVE FindConfigurationFrom(_, _, _)
FindConfigurationFrom(i, pool, configuration_value) ==
    IF i > configuration_count THEN NULL_CONFIGURATION
    ELSE IF ConfigurationPool(pool)[i] = NULL THEN WILD_CONFIGURATION
    ELSE IF ConfigurationPool(pool)[i] = configuration_value
         THEN [pool |-> pool, index |-> i]
    ELSE FindConfigurationFrom(i + 1, pool, configuration_value)

usb_find_configuration_descriptor(configuration_value) ==
    IF configuration_value = 0 THEN NULL_CONFIGURATION
    ELSE IF ConfigurationPool(usb_current_device_speed) = <<>>
    THEN NULL_CONFIGURATION
    ELSE FindConfigurationFrom(1, usb_current_device_speed, configuration_value)

\* As usb_set_configuration, storing what the lookup returned before the
\* failure is reported.
set_configuration_stores_first(configuration_value) ==
    LET new_configuration == usb_find_configuration_descriptor(configuration_value)
    IN IF configuration_value # 0 /\ new_configuration = NULL_CONFIGURATION
       THEN [rc |-> 1, active |-> new_configuration]
       ELSE [rc |-> 0, active |-> new_configuration]

\* usb_set_configuration(device, configuration_value): the return code (1
\* stands for EFAULT, a nonzero errno) and the new device->active_configuration.
usb_set_configuration(configuration_value) ==
    LET new_configuration == usb_find_configuration_descriptor(configuration_value)
    IN IF configuration_value # 0 /\ new_configuration = NULL_CONFIGURATION
       THEN [rc |-> 1, active |-> active_configuration]
       ELSE [rc |-> 0, active |-> new_configuration]

\* What a handler leaves behind: its return value, the block scheduled on
\* the IN endpoint (empty when none) and the endpoint that carries the ACK.
Reply(status, block, ack) == [status |-> status, block |-> block, ack |-> ack]

NoReply == Reply(USB_REQUEST_STATUS_OK, <<>>, "none")

Stalled == Reply(USB_REQUEST_STATUS_STALL, <<>>, "none")

\* As usb_standard_request_get_status, with the length test of
\* usb_standard_request_get_configuration.
get_status_of_one_byte(setup) ==
    /\ stdReply' = IF setup.length # 1 THEN Stalled
                   ELSE Reply(USB_REQUEST_STATUS_OK, <<0, 0>>, "out")
    /\ UNCHANGED <<active_configuration, configuration_index, deviceaddr>>

usb_standard_request_get_status(setup) ==
    /\ stdReply' = IF setup.length # 2 THEN Stalled
                   ELSE Reply(USB_REQUEST_STATUS_OK, <<0, 0>>, "out")
    /\ UNCHANGED <<active_configuration, configuration_index, deviceaddr>>

\* As usb_standard_request_set_address, with usb_set_address_immediate.
set_address_immediately(setup) ==
    /\ deviceaddr' = [usbadr |-> setup.value_l % 128, usbadra |-> FALSE]
    /\ stdReply' = Reply(USB_REQUEST_STATUS_OK, <<>>, "in")
    /\ UNCHANGED <<active_configuration, configuration_index>>

usb_standard_request_set_address(setup) ==
    \* usb_set_address_deferred: the address with the USBADRA bit
    /\ deviceaddr' = [usbadr |-> setup.value_l % 128, usbadra |-> TRUE]
    /\ stdReply' = Reply(USB_REQUEST_STATUS_OK, <<>>, "in")
    /\ UNCHANGED <<active_configuration, configuration_index>>

usb_standard_request_set_configuration(setup) ==
    LET r == usb_set_configuration(setup.value_l) IN
    /\ active_configuration' = r.active
    /\ stdReply' = IF r.rc # 0 THEN Stalled
                   ELSE Reply(USB_REQUEST_STATUS_OK, <<>>, "in")
    /\ UNCHANGED <<configuration_index, deviceaddr>>

\* configuration_index is a static of the function: it keeps its value from
\* one call to the next and is written only while a configuration is active.
usb_standard_request_get_configuration(setup) ==
    IF setup.length # 1
    THEN /\ stdReply' = Stalled
         /\ UNCHANGED <<active_configuration, configuration_index, deviceaddr>>
    ELSE /\ configuration_index' =
                IF active_configuration # NULL_CONFIGURATION
                THEN ConfigurationValue(active_configuration)
                ELSE configuration_index
         /\ stdReply' = Reply(USB_REQUEST_STATUS_OK, <<configuration_index'>>, "out")
         /\ UNCHANGED <<active_configuration, deviceaddr>>

usb_standard_request_unhandled(setup) ==
    /\ stdReply' = Stalled
    /\ UNCHANGED <<active_configuration, configuration_index, deviceaddr>>

(***************************************************************************)
(* Descriptors.  A descriptor is the block of bytes it occupies: byte 1 is *)
(* its length and byte 2 its type; a configuration descriptor is followed  *)
(* by its subordinate descriptors, bytes 3 and 4 hold the total length and *)
(* byte 6 the configuration value.  A pointer to a descriptor is the block *)
(* itself, the NULL pointer the empty block.                               *)
(***************************************************************************)
USB_DESCRIPTOR_TYPE_DEVICE == 1
USB_DESCRIPTOR_TYPE_CONFIGURATION == 2
USB_DESCRIPTOR_TYPE_STRING == 3
USB_DESCRIPTOR_TYPE_INTERFACE == 4
USB_DESCRIPTOR_TYPE_ENDPOINT == 5
USB_DESCRIPTOR_TYPE_DEVICE_QUALIFIER == 6
USB_DESCRIPTOR_TYPE_OTHER_SPEED_CONFIGURATION == 7

NULL_DESCRIPTOR == <<>>

\* A descriptor of the given length and type; `tag` fills its other bytes
\* and tells one descriptor from another.
MakeDescriptor(length, type, tag) ==
    [k \in 1..length |-> IF k = 1 THEN length ELSE IF k = 2 THEN type ELSE tag]

\* sizeof(usb_device_descriptor_t) and sizeof(usb_device_qualifier_descriptor_t)
DEVICE_DESCRIPTOR_LENGTH == 18
DEVICE_QUALIFIER_DESCRIPTOR_LENGTH == 10
CONFIGURATION_DESCRIPTOR_LENGTH == 9

device_descriptor ==
    MakeDescriptor(DEVICE_DESCRIPTOR_LENGTH, USB_DESCRIPTOR_TYPE_DEVICE, 0)

DeviceQualifierDescriptor ==
    MakeDescriptor(DEVICE_QUALIFIER_DESCRIPTOR_LENGTH,
                   USB_DESCRIPTOR_TYPE_DEVICE_QUALIFIER, 0)

\* The configuration descriptor a pointer refers to, with the interface and
\* endpoint descriptors that follow it in memory: an interface and `index`
\* endpoints, and one endpoint more at high speed.
ConfigurationTotalLength(config) ==
    CONFIGURATION_DESCRIPTOR_LENGTH + 9 + 7 * config.index
        + (IF config.pool = USB_SPEED_HIGH THEN 7 ELSE 0)

ConfigurationDescriptor(config) ==
    IF config = NULL_CONFIGURATION THEN NULL_DESCRIPTOR
    ELSE [k \in 1..ConfigurationTotalLength(config) |->
             CASE k = 1 -> CONFIGURATION_DESCRIPTOR_LENGTH
               [] k = 2 -> USB_DESCRIPTOR_TYPE_CONFIGURATION
               [] k = 3 -> ConfigurationTotalLength(config) % 256
               [] k = 4 -> ConfigurationTotalLength(config) \div 256
               [] k = 6 -> ConfigurationValue(config)
               [] OTHER -> config.pool]

\* An entry of the string descriptor list; the entry whose descriptor is
\* NULL is the sentinel.
StringEntry(index, descriptor) == [index |-> index, descriptor |-> descriptor]

StringDescriptor(length, tag) ==
    MakeDescriptor(length, USB_DESCRIPTOR_TYPE_STRING, tag)

\* The list of the firmware: the languages at index 0, three strings, the
\* sentinel.
FirmwareStrings ==
    <<StringEntry(0, StringDescriptor(4, 9)),
      StringEntry(1, StringDescriptor(6, 1)),
      StringEntry(2, StringDescriptor(8, 2)),
      StringEntry(3, StringDescriptor(10, 3)),
      StringEntry(0, NULL_DESCRIPTOR)>>

\* The string lists of the devices of the model: that of the firmware; a
\* sparse one with index 2 twice and an entry in the memory after the
\* sentinel; one with the sentinel alone.
StringLists ==
    {FirmwareStrings,
     <<StringEntry(0, StringDescriptor(4, 9)),
       StringEntry(2, StringDescriptor(6, 1)),
       StringEntry(2, StringDescriptor(8, 2)),
       StringEntry(0, NULL_DESCRIPTOR),
       StringEntry(5, StringDescriptor(10, 3))>>,
     <<StringEntry(0, NULL_DESCRIPTOR)>>}

\* The first `length` bytes of the descriptor.
DescriptorBlock(descriptor, length) == [k \in 1..length |-> descriptor[k]]

\* As usb_send_descriptor, without the truncation to the requested length.
send_descriptor_untruncated(setup, descriptor) ==
    IF descriptor = NULL_DESCRIPTOR THEN Stalled
    ELSE LET length == descriptor[1]
             total_length == descriptor[3] + 256 * descriptor[4]
             length_to_send ==
                 IF descriptor[2] = USB_DESCRIPTOR_TYPE_CONFIGURATION
                 THEN total_length ELSE length
         IN Reply(USB_REQUEST_STATUS_OK,
                  DescriptorBlock(descriptor, length_to_send), "out")

\* usb_send_descriptor(endpoint, descriptor): what it schedules and returns.
usb_send_descriptor(setup, descriptor) ==
    IF descriptor = NULL_DESCRIPTOR THEN Stalled
    ELSE LET length == descriptor[1]
             total_length == descriptor[3] + 256 * descriptor[4]
             full_length ==
                 IF descriptor[2] = USB_DESCRIPTOR_TYPE_CONFIGURATION
                 THEN total_length ELSE length
             length_to_send ==
                 IF setup.length < full_length THEN setup.length ELSE full_length
         IN Reply(USB_REQUEST_STATUS_OK,
                  DescriptorBlock(descriptor, length_to_send), "out")

\* The loop of usb_send_descriptor_string from entry i on: the position of
\* the entry it stops at with a match, 0 when it stops at the sentinel.
RECURSIVE FindStringFrom(_, _)
FindStringFrom(i, index) ==
    IF string_descriptors[i].descriptor = NULL_DESCRIPTOR THEN 0
    ELSE IF string_descriptors[i].index = index THEN i
    ELSE FindStringFrom(i + 1, index)

\* As usb_send_descriptor_string, taking the index for the position in the
\* list.
send_descriptor_string_by_position(setup, index) ==
    IF index + 1 > Len(string_descriptors) THEN Stalled
    ELSE usb_send_descriptor(setup, string_descriptors[index + 1].descriptor)

usb_send_descriptor_string(setup, index) ==
    LET entry == FindStringFrom(1, index)
    IN IF entry = 0 THEN Stalled
       ELSE usb_send_descriptor(setup, string_descriptors[entry].descriptor)

usb_other_device_speed ==
    IF portsc_speed = USB_SPEED_HIGH THEN USB_SPEED_FULL ELSE USB_SPEED_HIGH

usb_find_other_speed_configuration_descriptor(configuration_value) ==
    IF configuration_value = 0 THEN NULL_CONFIGURATION
    ELSE IF ConfigurationPool(usb_other_device_speed) = <<>>
    THEN NULL_CONFIGURATION
    ELSE FindConfigurationFrom(1, usb_other_device_speed, configuration_value)

\* As ConfigurationValueOfIndex, without the step from the index to the value.
configuration_value_is_index(descriptor_index) == descriptor_index

\* usb_standard_request_get_descriptor: descriptor_index + 1, passed as the
\* uint8_t configuration_value of usb_find_configuration_descriptor.
ConfigurationValueOfIndex(descriptor_index) == (descriptor_index + 1) % 256

\* As GetDescriptorReply, an interface or endpoint request answered with
\* the device descriptor.
get_descriptor_falls_through(setup) ==
    LET descriptor_type == setup.value_h
        descriptor_index == setup.value_l
    IN CASE descriptor_type = USB_DESCRIPTOR_TYPE_STRING ->
                usb_send_descriptor_string(setup, descriptor_index)
         [] descriptor_type \in {USB_DESCRIPTOR_TYPE_DEVICE,
                                 USB_DESCRIPTOR_TYPE_INTERFACE,
                                 USB_DESCRIPTOR_TYPE_ENDPOINT} ->
                usb_send_descriptor(setup, device_descriptor)
         [] descriptor_type = USB_DESCRIPTOR_TYPE_CONFIGURATION ->
                usb_send_descriptor(setup, ConfigurationDescriptor(
                    usb_find_configuration_descriptor(
                        ConfigurationValueOfIndex(descriptor_index))))
         [] descriptor_type = USB_DESCRIPTOR_TYPE_DEVICE_QUALIFIER ->
                usb_send_descriptor(setup, device_qualifier_descriptor)
         [] descriptor_type = USB_DESCRIPTOR_TYPE_OTHER_SPEED_CONFIGURATION ->
                usb_send_descriptor(setup, ConfigurationDescriptor(
                    usb_find_other_speed_configuration_descriptor(descriptor_index)))
         [] OTHER -> Stalled

\* usb_standard_request_get_descriptor: what it schedules and returns.  A
\* type the switch has no case for, and the interface and endpoint types,
\* leave the descriptor NULL.
GetDescriptorReply(setup) ==
    LET descriptor_type == setup.value_h
        descriptor_index == setup.value_l
    IN CASE descriptor_type = USB_DESCRIPTOR_TYPE_STRING ->
                usb_send_descriptor_string(setup, descriptor_index)
         [] descriptor_type = USB_DESCRIPTOR_TYPE_DEVICE ->
                usb_send_descriptor(setup, device_descriptor)
         [] descriptor_type = USB_DESCRIPTOR_TYPE_CONFIGURATION ->
                usb_send_descriptor(setup, ConfigurationDescriptor(
                    usb_find_configuration_descriptor(
                        ConfigurationValueOfIndex(descriptor_index))))
         [] descriptor_type = USB_DESCRIPTOR_TYPE_DEVICE_QUALIFIER ->
                usb_send_descriptor(setup, device_qualifier_descriptor)
         [] descriptor_type = USB_DESCRIPTOR_TYPE_OTHER_SPEED_CONFIGURATION ->
                usb_send_descriptor(setup, ConfigurationDescriptor(
                    usb_find_other_speed_configuration_descriptor(descriptor_index)))
         [] OTHER -> Stalled

usb_standard_request_get_descriptor(setup) ==
    /\ stdReply' = GetDescriptorReply(setup)
    /\ UNCHANGED <<active_configuration, configuration_index, deviceaddr>>

\* As usb_get_handler_for_standard_request, with SET_FEATURE handled as
\* SET_ADDRESS is.
handler_for_set_feature(request) ==
    IF request \in {USB_STANDARD_REQUEST_GET_STATUS,
                    USB_STANDARD_REQUEST_GET_DESCRIPTOR,
                    USB_STANDARD_REQUEST_SET_ADDRESS,
                    USB_STANDARD_REQUEST_SET_CONFIGURATION,
                    USB_STANDARD_REQUEST_GET_CONFIGURATION}
    THEN request
    ELSE IF request = USB_STANDARD_REQUEST_SET_FEATURE
    THEN USB_STANDARD_REQUEST_SET_ADDRESS
    ELSE UNHANDLED

\* usb_get_handler_for_standard_request(request): the handler, named by the
\* request it is the handler of; UNHANDLED names usb_standard_request_unhandled.
usb_get_handler_for_standard_request(request) ==
    IF request \in {USB_STANDARD_REQUEST_GET_STATUS,
                    USB_STANDARD_REQUEST_GET_DESCRIPTOR,
                    USB_STANDARD_REQUEST_SET_ADDRESS,
                    USB_STANDARD_REQUEST_SET_CONFIGURATION,
                    USB_STANDARD_REQUEST_GET_CONFIGURATION}
    THEN request
    ELSE UNHANDLED

\* usb_standard_request(endpoint, USB_TRANSFER_STAGE_SETUP), with
\* endpoint->setup = setup.
usb_standard_request(setup) ==
    /\ LET handler == usb_get_handler_for_standard_request(setup.request) IN
       CASE handler = USB_STANDARD_REQUEST_GET_STATUS ->
                usb_standard_request_get_status(setup)
         [] handler = USB_STANDARD_REQUEST_GET_DESCRIPTOR ->
                usb_standard_request_get_descriptor(setup)
         [] handler = USB_STANDARD_REQUEST_SET_ADDRESS ->
                usb_standard_request_set_address(setup)
         [] handler = USB_STANDARD_REQUEST_SET_CONFIGURATION ->
                usb_standard_request_set_configuration(setup)
         [] handler = USB_STANDARD_REQUEST_GET_CONFIGURATION ->
                usb_standard_request_get_configuration(setup)
         [] OTHER -> usb_standard_request_unhandled(setup)
    /\ UNCHANGED <<portsc_speed, regVars, epVars, tdVars, hwVars, isrVars,
                   appVars, nSetups, nTds>>

InitStd ==
    /\ active_configuration = NULL_CONFIGURATION
    /\ configuration_index = 0
    /\ deviceaddr = [usbadr |-> 0, usbadra |-> FALSE]
    /\ portsc_speed = USB_SPEED_FULL
    /\ stdReply = NoReply

(***************************************************************************)
(* Device mode: the endpoint registers and the setup intake of the ISR.    *)
(* A register with one bit per endpoint is the set of endpoints whose bit  *)
(* is set: endpoint numbers for ENDPTSETUPSTAT, endpoint addresses for     *)
(* ENDPTPRIME, ENDPTFLUSH and ENDPTSTAT.  The ISR and the functions that   *)
(* busy-wait on a register run one statement at a time, so that the        *)
(* controller acts between their statements.                               *)
(***************************************************************************)
\* Endpoints 0..NumEndpoints-1 (the firmware scans six).
NumEndpoints == 2
MaxSetups == 2
MaxTds == 3

EndpointNumbers == 0..(NumEndpoints - 1)

\* The device-mode transfer descriptors.
DTDs == 1..MaxTds

usb_endpoint_address(is_in, number) == (IF is_in THEN 128 ELSE 0) + number

EndpointAddresses ==
    {usb_endpoint_address(d, n) : d \in BOOLEAN, n \in EndpointNumbers}

\* An event of the ISR log: what was done, and to which endpoint.
Event(ev, ep) == [ev |-> ev, ep |-> ep]

\* The statements of usb_flush_primed_endpoints, in program order, in the
\* order "FLUSH write, wait for PRIME, wait for FLUSH".
flush_write_first == <<"write_flush", "wait_prime", "wait_flush">>

\* The statements of usb_flush_primed_endpoints, in program order.
usb_flush_primed_endpoints == <<"wait_prime", "write_flush", "wait_flush">>

\* The statements of the loop body of usb_check_for_setup_events, with the
\* callback ahead of the flushes.
setup_complete_before_flush ==
    <<"copy_out", "copy_in", "clear_setup", "wait_setup", "setup_complete",
      "flush_in", "flush_out">>

\* The statements of the loop body of usb_check_for_setup_events for an
\* endpoint whose bit is set, in program order; clear_setup and wait_setup
\* are the two statements of usb_clear_endpoint_setup_status.
usb_check_for_setup_events ==
    <<"copy_out", "copy_in", "clear_setup", "wait_setup", "flush_in",
      "flush_out", "setup_complete">>

\* The statement the ISR is at, "" outside the loop body.
IsrStatement ==
    IF isrPc = "body" THEN usb_check_for_setup_events[isrStep] ELSE ""

\* The statement of usb_flush_primed_endpoints the ISR is at, "" outside it.
FlushStatement ==
    IF isrPc = "body" /\ isrFlushStep > 0
    THEN usb_flush_primed_endpoints[isrFlushStep] ELSE ""

\* The endpoint address usb_endpoint_flush was called with.
FlushAddress == usb_endpoint_address(IsrStatement = "flush_in", isrI)

\* The ISR moves past the statement of the loop body it is at.
IsrAdvance ==
    IF isrStep < Len(usb_check_for_setup_events)
    THEN /\ isrStep' = isrStep + 1
         /\ UNCHANGED <<isrPc, isrI>>
    ELSE /\ isrStep' = 1
         /\ isrI' = isrI + 1
         /\ isrPc' = "scan"

\* The ISR moves past the statement of usb_flush_primed_endpoints it is at.
FlushAdvance ==
    IF isrFlushStep < Len(usb_flush_primed_endpoints)
    THEN /\ isrFlushStep' = isrFlushStep + 1
         /\ UNCHANGED <<isrPc, isrI, isrStep>>
    ELSE /\ isrFlushStep' = 0
         /\ IsrAdvance

\* usb_device_isr enters usb_check_for_setup_events: the snapshot of
\* ENDPTSETUPSTAT is taken and the scan starts at endpoint 0.
IsrEnter ==
    /\ isrPc = "idle"
    /\ isrStat' = endptsetupstat
    /\ isrI' = 0
    /\ isrStep' = 1
    /\ isrLog' = <<>>
    /\ isrPc' = IF endptsetupstat = {} THEN "idle" ELSE "scan"
    /\ UNCHANGED <<regVars, epVars, tdVars, hwVars, isrFlushStep, appVars, nSetups, nTds>>

\* The head of the for loop.
IsrScan ==
    /\ isrPc = "scan"
    /\ IF isrI >= NumEndpoints THEN isrPc' = "idle" /\ isrI' = isrI
       ELSE IF isrI \notin isrStat THEN isrPc' = "scan" /\ isrI' = isrI + 1
       ELSE isrPc' = "body" /\ isrI' = isrI
    /\ UNCHANGED <<regVars, epVars, tdVars, hwVars, isrStat, isrStep,
                   isrFlushStep, isrLog, appVars, nSetups, nTds>>

\* usb_copy_setup(&endpoint->setup, qh->setup) and
\* usb_copy_setup(&endpoint->in->setup, qh->setup): the queue head is the
\* OUT endpoint's.
IsrCopySetup ==
    /\ IsrStatement \in {"copy_out", "copy_in"}
    /\ LET dst == usb_endpoint_address(IsrStatement = "copy_in", isrI) IN
       /\ epSetup' = [epSetup EXCEPT ![dst] = usb_copy_setup(qhSetup[isrI])]
       /\ isrLog' = Append(isrLog, Event("copy_setup", dst))
    /\ IsrAdvance
    /\ UNCHANGED <<regVars, qhSetup, epSetupComplete, tdVars, hwVars, isrStat,
                   isrFlushStep, appVars, nSetups, nTds>>

\* usb_clear_endpoint_setup_status: the write.  The register is
\* write-one-to-clear.
usb_clear_endpoint_setup_status_write ==
    /\ IsrStatement = "clear_setup"
    /\ endptsetupstat' = endptsetupstat \ {isrI}
    /\ isrLog' = Append(isrLog, Event("clear_setup_status", isrI))
    /\ IsrAdvance
    /\ UNCHANGED <<endptprime, endptflush, endptstat, usbcmd_atdtw, endptctrl, epVars,
                   tdVars, hwVars, isrStat, isrFlushStep, appVars, nSetups, nTds>>

\* usb_clear_endpoint_setup_status: the loop ends when the bit reads clear.
usb_clear_endpoint_setup_status_wait ==
    /\ IsrStatement = "wait_setup"
    /\ isrI \notin endptsetupstat
    /\ isrLog' = Append(isrLog, Event("setup_status_clear", isrI))
    /\ IsrAdvance
    /\ UNCHANGED <<regVars, epVars, tdVars, hwVars, isrStat, isrFlushStep,
                   appVars, nSetups, nTds>>

\* usb_endpoint_flush(endpoint->in) and usb_endpoint_flush(endpoint->out), up
\* to the call of usb_flush_primed_endpoints.
usb_endpoint_flush ==
    /\ IsrStatement \in {"flush_in", "flush_out"}
    /\ isrFlushStep = 0
    /\ isrFlushStep' = 1
    /\ isrLog' = Append(isrLog, Event("flush", FlushAddress))
    \* usb_queue_flush_endpoint(endpoint): the software queue is emptied
    /\ queueTail' = [queueTail EXCEPT ![FlushAddress] = NULL]
    /\ UNCHANGED <<regVars, epVars, dqhNext, dtdNext, dtdActive, hwVars, isrPc,
                   isrStat, isrI,
                   isrStep, appVars, nSetups, nTds>>

\* while (device->reg->endptprime & mask);
usb_wait_for_endpoint_priming_to_finish ==
    /\ FlushStatement = "wait_prime"
    /\ FlushAddress \notin endptprime
    /\ isrLog' = Append(isrLog, Event("priming_finished", FlushAddress))
    /\ FlushAdvance
    /\ UNCHANGED <<regVars, epVars, tdVars, hwVars, isrStat, appVars, nSetups, nTds>>

\* device->reg->endptflush = mask;
usb_flush_endpoints ==
    /\ FlushStatement = "write_flush"
    /\ endptflush' = endptflush \cup {FlushAddress}
    /\ isrLog' = Append(isrLog, Event("flush_write", FlushAddress))
    /\ FlushAdvance
    /\ UNCHANGED <<endptsetupstat, endptprime, endptstat, usbcmd_atdtw, endptctrl, epVars,
                   tdVars, hwVars, isrStat, appVars, nSetups, nTds>>

\* while (device->reg->endptflush & mask);
usb_wait_for_endpoint_flushing_to_finish ==
    /\ FlushStatement = "wait_flush"
    /\ FlushAddress \notin endptflush
    /\ isrLog' = Append(isrLog, Event("flushing_finished", FlushAddress))
    /\ FlushAdvance
    /\ UNCHANGED <<regVars, epVars, tdVars, hwVars, isrStat, appVars, nSetups, nTds>>

\* if (endpoint && endpoint->setup_complete) endpoint->setup_complete(endpoint);
IsrSetupComplete ==
    /\ IsrStatement = "setup_complete"
    /\ LET out == usb_endpoint_address(FALSE, isrI) IN
       isrLog' = IF epSetupComplete[isrI]
                 THEN Append(isrLog, Event("setup_complete", out))
                 ELSE isrLog
    /\ IsrAdvance
    /\ UNCHANGED <<regVars, epVars, tdVars, hwVars, isrStat, isrFlushStep,
                   appVars, nSetups, nTds>>

\* usb_endpoint_prime(endpoint, first_td): the new queue-head pointers and
\* the new ENDPTPRIME.
usb_endpoint_prime(address, first_td) ==
    [dqhNext |-> [dqhNext EXCEPT ![address] = first_td],
     endptprime |-> endptprime \cup {address}]

\* usb_endpoint_schedule_wait(endpoint, td), called from the main context on
\* an endpoint that is not being primed; returns once the endpoint is no
\* longer ready.  td is a filled-in (active) descriptor.
usb_endpoint_schedule_wait(address, td) ==
    /\ isrPc = "idle" /\ appPc = "idle"
    /\ nTds < MaxTds
    /\ td = nTds + 1
    /\ address \notin endptprime
    /\ address \notin endptstat
    /\ nTds' = nTds + 1
    /\ queueTail' = [queueTail EXCEPT ![address] = td]
    /\ dtdActive' = [dtdActive EXCEPT ![td] = TRUE]
    /\ dtdNext' = [dtdNext EXCEPT ![td] = TD_TERMINATE]
    /\ LET p == usb_endpoint_prime(address, td) IN
       /\ dqhNext' = p.dqhNext
       /\ endptprime' = p.endptprime
    /\ UNCHANGED <<endptsetupstat, endptflush, endptstat, usbcmd_atdtw, endptctrl, epVars,
                   hwVars, isrVars, appVars, nSetups>>

\* The controller receives a SETUP packet for control endpoint i: the eight
\* bytes go to the OUT queue head and the setup-status bit is raised.  The
\* host sends an endpoint its next SETUP once the driver has taken the last.
HwSetupReceived(i, src) ==
    /\ nSetups < MaxSetups
    /\ i \notin endptsetupstat
    /\ nSetups' = nSetups + 1
    /\ qhSetup' = [qhSetup EXCEPT ![i] = src]
    /\ endptsetupstat' = endptsetupstat \cup {i}
    /\ UNCHANGED <<endptprime, endptflush, endptstat, usbcmd_atdtw, endptctrl, epSetup,
                   epSetupComplete, tdVars, hwVars, isrVars, appVars, nTds>>

\* The controller finishes priming: it has read the queue head and loaded
\* the first TD; PRIME clears and the endpoint reads ready.
HwPrimeComplete(address) ==
    /\ address \in endptprime
    /\ endptprime' = endptprime \ {address}
    /\ endptstat' = endptstat \cup {address}
    /\ hwTd' = [hwTd EXCEPT ![address] = dqhNext[address]]
    /\ UNCHANGED <<endptsetupstat, endptflush, usbcmd_atdtw, endptctrl, epVars, tdVars,
                   hwHazard, hwLatched, isrVars, appVars, nSetups, nTds>>

\* The controller finishes a flush: the primed buffers are dropped, the
\* endpoint is no longer ready and FLUSH clears.
HwFlushComplete(address) ==
    /\ address \in endptflush
    /\ endptflush' = endptflush \ {address}
    /\ endptstat' = endptstat \ {address}
    /\ hwTd' = [hwTd EXCEPT ![address] = NULL]
    /\ hwHazard' = hwHazard \ {address}
    /\ UNCHANGED <<endptsetupstat, endptprime, usbcmd_atdtw, endptctrl, epVars, tdVars,
                   hwLatched, isrVars, appVars, nSetups, nTds>>

ZERO_SETUP_BLOCK == <<0, 0, 0, 0, 0, 0, 0, 0>>

\* ENDPTCTRL0: "Endpoint 0 is always enabled": its enable bits read as set
\* whatever is written.
EndptctrlRead(number, written) ==
    IF number = 0 THEN written \cup {"RXE", "TXE"} ELSE written

InitRegisters ==
    /\ endptsetupstat = {}
    /\ endptprime = {}
    /\ endptflush = {}
    /\ endptstat = {}
    /\ usbcmd_atdtw = FALSE
    /\ endptctrl = [i \in EndpointNumbers |-> EndptctrlRead(i, {})]
    /\ qhSetup = [i \in EndpointNumbers |-> ZERO_SETUP_BLOCK]
    /\ epSetup = [a \in EndpointAddresses |-> usb_copy_setup(ZERO_SETUP_BLOCK)]
    /\ dqhNext = [a \in EndpointAddresses |-> TD_TERMINATE]
    /\ dtdNext = [t \in DTDs |-> TD_TERMINATE]
    /\ dtdActive = [t \in DTDs |-> FALSE]
    /\ queueTail = [a \in EndpointAddresses |-> NULL]
    /\ hwTd = [a \in EndpointAddresses |-> NULL]
    /\ hwHazard = {}
    /\ hwLatched = [a \in EndpointAddresses |-> TD_TERMINATE]
    /\ isrPc = "idle"
    /\ isrStat = {}
    /\ isrI = 0
    /\ isrStep = 1
    /\ isrFlushStep = 0
    /\ isrLog = <<>>
    /\ nSetups = 0
    /\ nTds = 0

(***************************************************************************)
(* Device mode: appending a TD to an endpoint the controller is working    *)
(* on.  The controller retires a TD in two steps: it reads the TD's next   *)
(* pointer, and then it loads the next TD or, at the end of the chain,     *)
(* drops the endpoint's ready bit.  Between the two steps it holds ATDTW   *)
(* at zero.                                                                *)
(***************************************************************************)
\* As the loop test of usb_endpoint_schedule_append, but the first reading
\* of the endpoint's status is taken whatever ATDTW reads.
retry_never(atdtw) == FALSE

\* do { ... } while (!(registers->usbcmd & USB0_USBCMD_D_ATDTW));
usb_endpoint_schedule_append_retry(atdtw) == ~atdtw

\* usb_endpoint_schedule_append(endpoint, tail_td, new_td), first statement:
\* tail_td->next_dtd_pointer = new_td.  The caller passes the tail of the
\* endpoint's queue and a new, filled-in descriptor.
usb_endpoint_schedule_append(address) ==
    /\ isrPc = "idle" /\ appPc = "idle"
    /\ queueTail[address] # NULL
    /\ nTds < MaxTds
    /\ nTds' = nTds + 1
    /\ appEp' = address
    /\ appTail' = queueTail[address]
    /\ appNew' = nTds + 1
    /\ appDone' = FALSE
    /\ appRetried' = FALSE
    /\ queueTail' = [queueTail EXCEPT ![address] = nTds + 1]
    /\ dtdActive' = [dtdActive EXCEPT ![nTds + 1] = TRUE]
    /\ dtdNext' = [dtdNext EXCEPT ![nTds + 1] = TD_TERMINATE,
                                  ![queueTail[address]] = nTds + 1]
    /\ appPc' = "is_priming"
    /\ UNCHANGED <<regVars, epVars, dqhNext, hwVars, isrVars, nSetups>>

\* if (usb_endpoint_is_priming(endpoint)) return;
AppendIsPriming ==
    /\ appPc = "is_priming"
    /\ appPc' = IF appEp \in endptprime THEN "idle" ELSE "set_atdtw"
    /\ UNCHANGED <<regVars, epVars, tdVars, hwVars, isrVars, appEp, appTail,
                   appNew, appDone, appRetried, nSetups, nTds>>

\* registers->usbcmd |= USB0_USBCMD_D_ATDTW: the bit does not latch while
\* the controller holds it at zero.
AppendSetAtdtw ==
    /\ appPc = "set_atdtw"
    /\ usbcmd_atdtw' = (hwHazard = {})
    /\ appPc' = "is_ready"
    /\ UNCHANGED <<endptsetupstat, endptprime, endptflush, endptstat, endptctrl, epVars,
                   tdVars, hwVars, isrVars, appEp, appTail, appNew, appDone,
                   appRetried, nSetups, nTds>>

\* done = usb_endpoint_is_ready(endpoint);
AppendIsReady ==
    /\ appPc = "is_ready"
    /\ appDone' = (appEp \in endptstat)
    /\ appPc' = "test_atdtw"
    /\ UNCHANGED <<regVars, epVars, tdVars, hwVars, isrVars, appEp, appTail,
                   appNew, appRetried, nSetups, nTds>>

\* The loop test: ATDTW is read back.
AppendTestAtdtw ==
    /\ appPc = "test_atdtw"
    /\ IF usb_endpoint_schedule_append_retry(usbcmd_atdtw)
       THEN appPc' = "set_atdtw" /\ appRetried' = TRUE
       ELSE appPc' = "clear_atdtw" /\ appRetried' = appRetried
    /\ UNCHANGED <<regVars, epVars, tdVars, hwVars, isrVars, appEp, appTail,
                   appNew, appDone, nSetups, nTds>>

\* registers->usbcmd &= ~USB0_USBCMD_D_ATDTW; if (!done) ...
AppendClearAtdtw ==
    /\ appPc = "clear_atdtw"
    /\ usbcmd_atdtw' = FALSE
    /\ appPc' = IF appDone THEN "idle" ELSE "prime"
    /\ UNCHANGED <<endptsetupstat, endptprime, endptflush, endptstat, endptctrl, epVars,
                   tdVars, hwVars, isrVars, appEp, appTail, appNew, appDone,
                   appRetried, nSetups, nTds>>

\* usb_endpoint_prime(endpoint, new_td);
AppendPrime ==
    /\ appPc = "prime"
    /\ LET p == usb_endpoint_prime(appEp, appNew) IN
       /\ dqhNext' = p.dqhNext
       /\ endptprime' = p.endptprime
    /\ appPc' = "idle"
    /\ UNCHANGED <<endptsetupstat, endptflush, endptstat, usbcmd_atdtw, endptctrl, epVars,
                   dtdNext, dtdActive, queueTail, hwVars, isrVars, appEp,
                   appTail, appNew, appDone, appRetried, nSetups, nTds>>

\* The controller completes the TD it works on: the TD's active bit clears
\* and its next pointer is read.  ATDTW is forced to zero from here until
\* the endpoint's new state is visible.
HwBeginRetire(address) ==
    /\ address \in endptstat
    /\ address \notin hwHazard
    /\ hwTd[address] # NULL
    /\ dtdActive' = [dtdActive EXCEPT ![hwTd[address]] = FALSE]
    /\ hwLatched' = [hwLatched EXCEPT ![address] = dtdNext[hwTd[address]]]
    /\ hwHazard' = hwHazard \cup {address}
    /\ usbcmd_atdtw' = FALSE
    /\ UNCHANGED <<endptsetupstat, endptprime, endptflush, endptstat, endptctrl, epVars,
                   dqhNext, dtdNext, queueTail, hwTd, isrVars, appVars,
                   nSetups, nTds>>

\* The controller acts on the pointer it read: it loads the next TD, or the
\* endpoint stops being ready.
HwEndRetire(address) ==
    /\ address \in hwHazard
    /\ hwHazard' = hwHazard \ {address}
    /\ IF hwLatched[address] = TD_TERMINATE
       THEN /\ hwTd' = [hwTd EXCEPT ![address] = NULL]
            /\ endptstat' = endptstat \ {address}
       ELSE /\ hwTd' = [hwTd EXCEPT ![address] = hwLatched[address]]
            /\ endptstat' = endptstat
    /\ UNCHANGED <<endptsetupstat, endptprime, endptflush, usbcmd_atdtw, endptctrl, epVars,
                   tdVars, hwLatched, isrVars, appVars, nSetups, nTds>>

InitAppend ==
    /\ appPc = "idle"
    /\ appEp = NULL
    /\ appTail = NULL
    /\ appNew = NULL
    /\ appDone = FALSE
    /\ appRetried = FALSE

(***************************************************************************)
(* The byte counters.  td.total_bytes is a bit-field of TOTAL_BYTES_BITS   *)
(* bits; maximum_length and bytes_transferred are uint32_t.  The           *)
(* controller counts total_bytes down by the bytes it moves.               *)
(***************************************************************************)
TOTAL_BYTES_BITS == 15
\* td->total_bytes = maximum_length: the value the bit-field keeps.
store_total_bytes(maximum_length) == maximum_length % (2 ^ TOTAL_BYTES_BITS)

\* uint32_t bytes_transferred = transfer->maximum_length - transfer->td.total_bytes;
\* The counter starts at most at maximum_length and only counts down, so the
\* unsigned difference never wraps.
bytes_transferred(transfer) == tMaximumLength[transfer] - tdTotalBytes[transfer]

NO_CALLBACK == [bytes_transferred |-> 0, halted |-> FALSE, transaction_error |-> FALSE]

InitBytes ==
    /\ tdTotalBytes = [t \in Transfers |-> 0]
    /\ tdHalted = [t \in Transfers |-> FALSE]
    /\ tdTransactionError = [t \in Transfers |-> FALSE]
    /\ tMaximumLength = [t \in Transfers |-> 0]
    /\ hwMoved = [t \in Transfers |-> 0]
    /\ cbArgs = [t \in Transfers |-> NO_CALLBACK]

\* usb_host_transfer_schedule(host, qh, ..., maximum_length, ...) with the
\* byte counter: the memset of usb_host_allocate_transfer clears the status
\* bits, then td->total_bytes and transfer->maximum_length are stored.
ScheduleBytes(qh, maximum_length) ==
    /\ usb_host_transfer_schedule(qh)
    /\ LET transfer ==
               usb_host_allocate_from_freelist(transfer_freelist, tHoriz).allocated
       IN IF transfer = NULL
          THEN UNCHANGED <<tdTotalBytes, tdHalted, tdTransactionError,
                           tMaximumLength, hwMoved>>
          ELSE /\ tdTotalBytes' = [tdTotalBytes EXCEPT ![transfer] =
                                       store_total_bytes(maximum_length)]
               /\ tdHalted' = [tdHalted EXCEPT ![transfer] = FALSE]
               /\ tdTransactionError' =
                      [tdTransactionError EXCEPT ![transfer] = FALSE]
               /\ tMaximumLength' = [tMaximumLength EXCEPT ![transfer] = maximum_length]
               /\ hwMoved' = [hwMoved EXCEPT ![transfer] = 0]
    /\ UNCHANGED cbArgs

\* The controller finishes the TD in the overlay after moving k bytes, and
\* writes the remaining count and the status bits back.
HwRetireBytes(q, k, halted, transaction_error) ==
    /\ HwRetire(q)
    /\ k <= tdTotalBytes[hwCur[q]]
    /\ tdTotalBytes' = [tdTotalBytes EXCEPT ![hwCur[q]] = @ - k]
    /\ tdHalted' = [tdHalted EXCEPT ![hwCur[q]] = halted]
    /\ tdTransactionError' = [tdTransactionError EXCEPT ![hwCur[q]] = transaction_error]
    /\ hwMoved' = [hwMoved EXCEPT ![hwCur[q]] = k]
    /\ UNCHANGED <<tMaximumLength, cbArgs>>

\* usb_host_handle_asynchronous_transfer_complete with the arguments of the
\* callbacks: completion_cb(user_data, bytes_transferred, td.halted,
\* td.transaction_error) for every transfer the pass reaps.
ReapBytes ==
    /\ usb_host_handle_asynchronous_transfer_complete
    /\ cbArgs' = [t \in Transfers |->
                     IF \E i \in 1..Len(cbLog') : cbLog'[i].transfer = t
                     THEN [bytes_transferred |-> bytes_transferred(t),
                           halted |-> tdHalted[t],
                           transaction_error |-> tdTransactionError[t]]
                     ELSE cbArgs[t]]
    /\ UNCHANGED <<tdTotalBytes, tdHalted, tdTransactionError, tMaximumLength,
                   hwMoved>>

(***************************************************************************)
(* The interrupt status register.  USBSTS is write-one-to-clear: a write   *)
(* clears the bits that are set in the written value and leaves the others.*)
(* The controller raises status bits on its own, whether or not USBINTR    *)
(* enables them.                                                           *)
(***************************************************************************)
NumStatusBits == 3

\* The low bits of USBSTS: usb_interrupt, usb_error_interrupt,
\* port_change_detected.
StatusBits == 0..(NumStatusBits - 1)

\* usb_interrupt_flags_t.usb_interrupt
USB_INTERRUPT == 0

\* As the read, without the mask.
usb_get_status_unmasked(sts, intr) == sts

\* status.all = device->reg->usbsts.all & device->reg->usbintr.all;
usb_get_status_read(sts, intr) == sts \cap intr

\* The controller's answer to a write of 'written' to USBSTS.
WriteOneToClear(sts, written) == sts \ written

InitStatus ==
    /\ usbsts = {}
    /\ usbintr = StatusBits
    /\ gsPc = "idle"
    /\ gsStatus = {}
    /\ gsReturned = {}
    /\ gsRaised = {}

\* The controller raises a status bit.
HwRaiseStatus(bit) ==
    /\ bit \notin usbsts
    /\ usbsts' = usbsts \cup {bit}
    /\ gsRaised' = IF gsPc = "read" THEN gsRaised \cup {bit} ELSE gsRaised
    /\ UNCHANGED <<usbintr, gsPc, gsStatus, gsReturned>>

\* usb_get_status, its first statement: the one read of USBSTS, masked.
GetStatusRead ==
    /\ gsPc = "idle"
    /\ gsStatus' = usb_get_status_read(usbsts, usbintr)
    /\ gsPc' = "read"
    /\ gsRaised' = {}
    /\ UNCHANGED <<usbsts, usbintr, gsReturned>>

\* usb_get_status, its second statement and return: 'status' is written back
\* to USBSTS and returned.
GetStatusWriteBack ==
    /\ gsPc = "read"
    /\ usbsts' = WriteOneToClear(usbsts, gsStatus)
    /\ gsReturned' = gsStatus
    /\ gsPc' = "idle"
    /\ UNCHANGED <<usbintr, gsStatus, gsRaised>>

(***************************************************************************)
(* usb_device_isr.  It reads the interrupt status and, when the USB        *)
(* interrupt is among it, runs usb_check_for_setup_events and then         *)
(* usb_check_for_transfer_events; each takes one snapshot of its register  *)
(* and scans the endpoints.  The controller sets bits between the steps.   *)
(* The body of the setup scan is one step here: its statements are those   *)
(* of usb_check_for_setup_events above.                                    *)
(***************************************************************************)
MaxCompletions == 2

\* The two calls, transfer events first.
transfer_events_first ==
    <<"usb_check_for_transfer_events", "usb_check_for_setup_events">>

\* The two calls of the USB-interrupt branch of usb_device_isr, in program
\* order.
usb_device_isr == <<"usb_check_for_setup_events", "usb_check_for_transfer_events">>

InitIrq ==
    /\ endptcomplete = {}
    /\ epTransferComplete = [a \in EndpointAddresses |-> TRUE]
    /\ dPc = "idle"
    /\ dCall = 1
    /\ dI = 0
    /\ dIn = FALSE
    /\ dSnapshot = {}
    /\ dLog = <<>>
    /\ nCompletions = 0

\* The call the ISR is in, "" outside the two calls.
DevIsrCall == IF dPc \in {"enter", "scan"} THEN usb_device_isr[dCall] ELSE ""

\* The ISR returns from one of the two calls.
DevIsrReturn ==
    IF dCall < Len(usb_device_isr)
    THEN dCall' = dCall + 1 /\ dPc' = "enter"
    ELSE dCall' = 1 /\ dPc' = "idle"

\* usb_device_isr: const usb_interrupt_flags_t status = usb_get_status(device),
\* the read.
DevIsrGetStatusRead ==
    /\ dPc = "idle"
    /\ GetStatusRead
    /\ dPc' = "status"
    /\ dLog' = <<>>
    /\ UNCHANGED <<endptcomplete, epTransferComplete, dCall, dI, dIn, dSnapshot,
                   nCompletions>>

\* usb_get_status, the write-back, then the tests of status.all and
\* status.usb_interrupt.  The branches after the USB-interrupt branch call
\* nothing for the status bits the model has.
DevIsrGetStatusWriteBack ==
    /\ dPc = "status"
    /\ GetStatusWriteBack
    /\ dPc' = IF USB_INTERRUPT \in gsStatus THEN "enter" ELSE "idle"
    /\ dCall' = 1
    /\ UNCHANGED <<endptcomplete, epTransferComplete, dI, dIn, dSnapshot, dLog,
                   nCompletions>>

\* The first statement of either call: the snapshot of its register, and the
\* test of the snapshot.
DevIsrEnterCall ==
    /\ dPc = "enter"
    /\ LET snapshot == IF DevIsrCall = "usb_check_for_setup_events"
                       THEN endptsetupstat ELSE endptcomplete
       IN /\ dSnapshot' = snapshot
          /\ IF snapshot = {} THEN DevIsrReturn ELSE dPc' = "scan" /\ dCall' = dCall
    /\ dI' = 0
    /\ dIn' = FALSE
    /\ UNCHANGED <<endptcomplete, epTransferComplete, dLog, nCompletions, devVars,
                   statusVars>>

\* usb_check_for_setup_events, one turn of its loop: for an endpoint whose
\* bit is in the snapshot the setup data is copied, the bit is cleared and
\* setup_complete is called if it is set.
DevIsrSetupScan ==
    /\ dPc = "scan" /\ DevIsrCall = "usb_check_for_setup_events"
    /\ IF dI >= NumEndpoints
       THEN /\ DevIsrReturn
            /\ UNCHANGED <<dI, dLog, endptsetupstat, epSetup>>
       ELSE /\ dI' = dI + 1
            /\ UNCHANGED <<dPc, dCall>>
            /\ IF dI \in dSnapshot
               THEN /\ epSetup' = [a \in EndpointAddresses |->
                                      IF a \in {usb_endpoint_address(FALSE, dI),
                                                usb_endpoint_address(TRUE, dI)}
                                      THEN usb_copy_setup(qhSetup[dI])
                                      ELSE epSetup[a]]
                    /\ endptsetupstat' = endptsetupstat \ {dI}
                    /\ dLog' = IF epSetupComplete[dI]
                               THEN Append(dLog, Event("setup_complete",
                                                  usb_endpoint_address(FALSE, dI)))
                               ELSE dLog
               ELSE UNCHANGED <<dLog, endptsetupstat, epSetup>>
    /\ UNCHANGED <<endptcomplete, epTransferComplete, dIn, dSnapshot, nCompletions,
                   stdVars,
                   endptprime, endptflush, endptstat, usbcmd_atdtw, endptctrl, qhSetup,
                   epSetupComplete, tdVars, hwVars, isrVars, appVars, nSetups, nTds,
                   statusVars>>

\* usb_check_for_transfer_events, one half of one turn of its loop: the OUT
\* bit of endpoint i, then its IN bit.  A bit of the snapshot is cleared and
\* transfer_complete is called if it is set.
DevIsrTransferScan ==
    /\ dPc = "scan" /\ DevIsrCall = "usb_check_for_transfer_events"
    /\ IF dI >= NumEndpoints
       THEN /\ DevIsrReturn
            /\ UNCHANGED <<dI, dIn, dLog, endptcomplete>>
       ELSE /\ dIn' = ~dIn
            /\ dI' = IF dIn THEN dI + 1 ELSE dI
            /\ UNCHANGED <<dPc, dCall>>
            /\ LET address == usb_endpoint_address(dIn, dI) IN
               IF address \in dSnapshot
               THEN /\ endptcomplete' = endptcomplete \ {address}
                    /\ dLog' = IF epTransferComplete[address]
                               THEN Append(dLog, Event("transfer_complete", address))
                               ELSE dLog
               ELSE UNCHANGED <<dLog, endptcomplete>>
    /\ UNCHANGED <<epTransferComplete, dSnapshot, nCompletions, devVars, statusVars>>

\* The controller raises the USB interrupt along with an event.
HwRaiseUsbInterrupt ==
    /\ usbsts' = usbsts \cup {USB_INTERRUPT}
    /\ gsRaised' = IF gsPc = "read" /\ USB_INTERRUPT \notin usbsts
                   THEN gsRaised \cup {USB_INTERRUPT} ELSE gsRaised
    /\ UNCHANGED <<usbintr, gsPc, gsStatus, gsReturned>>

\* The controller has received a SETUP packet on endpoint i.
HwSetupInterrupt(i, src) ==
    /\ HwSetupReceived(i, src)
    /\ HwRaiseUsbInterrupt
    /\ UNCHANGED <<stdVars, irqVars>>

\* The controller has retired a TD with IOC set on the endpoint.
HwTransferInterrupt(address) ==
    /\ nCompletions < MaxCompletions
    /\ nCompletions' = nCompletions + 1
    /\ address \notin endptcomplete
    /\ endptcomplete' = endptcomplete \cup {address}
    /\ HwRaiseUsbInterrupt
    /\ UNCHANGED <<epTransferComplete, dPc, dCall, dI, dIn, dSnapshot, dLog, devVars>>

(***************************************************************************)
(* The pools on their own.  usb_host_initialize_storage_pools runs, one    *)
(* statement at a time, in a build with poolNq queue heads and poolNt      *)
(* transfers; then the caller allocates and frees objects of both pools.   *)
(* Element i of a pool array is index i + 1 here.                          *)
(***************************************************************************)
MaxPoolEntries == 3

\* The statements of usb_host_initialize_storage_pools, in program order.
usb_host_initialize_storage_pools ==
    <<"head_qh", "head_t", "link_qh", "link_t", "term_qh", "term_t">>

\* usb_host_initialize_storage_pools has returned.
PoolDone == poolPc > Len(usb_host_initialize_storage_pools)

PoolStatement ==
    IF PoolDone THEN "" ELSE usb_host_initialize_storage_pools[poolPc]

PoolAdvance ==
    /\ poolPc' = poolPc + 1
    /\ poolI' = 0

\* A store to element `index` of a pool array of n elements: the new cells,
\* and the store itself when it falls outside the array.
PoolStore(array, cells, n, index, value) ==
    IF index \in 1..n
    THEN [cells |-> [cells EXCEPT ![index] = value], outside |-> {}]
    ELSE [cells |-> cells, outside |-> {<<array, index>>}]

\* queue_head_freelist.ptr = &queue_head_pool->horizontal;
\* transfer_freelist.ptr = &transfer_pool->horizontal;
PoolSetHead ==
    /\ PoolStatement \in {"head_qh", "head_t"}
    /\ IF PoolStatement = "head_qh"
       THEN queue_head_freelist' = PtrTo(1) /\ UNCHANGED transfer_freelist
       ELSE transfer_freelist' = PtrTo(1) /\ UNCHANGED queue_head_freelist
    /\ PoolAdvance
    /\ UNCHANGED <<qhHoriz, tHoriz, poolOutside>>

\* for (i = 0; i < N - 1; ++i) pool[i].horizontal.ptr = &pool[i+1].horizontal;
\* one test of the loop condition and, when it holds, one pass of the body.
PoolLinkLoop ==
    /\ PoolStatement \in {"link_qh", "link_t"}
    /\ LET n == IF PoolStatement = "link_qh" THEN poolNq ELSE poolNt IN
       IF poolI < n - 1
       THEN /\ IF PoolStatement = "link_qh"
               THEN /\ qhHoriz' = PoolStore("queue_head_pool", qhHoriz, poolNq,
                                            poolI + 1, PtrTo(poolI + 2)).cells
                    /\ UNCHANGED tHoriz
               ELSE /\ tHoriz' = PoolStore("transfer_pool", tHoriz, poolNt,
                                           poolI + 1, PtrTo(poolI + 2)).cells
                    /\ UNCHANGED qhHoriz
            /\ poolI' = poolI + 1
            /\ UNCHANGED poolPc
       ELSE PoolAdvance /\ UNCHANGED <<qhHoriz, tHoriz>>
    /\ UNCHANGED <<queue_head_freelist, transfer_freelist, poolOutside>>

\* queue_head_pool[USB_HOST_MAX_QUEUE_HEADS - 1].horizontal.ptr = TERMINATING_LINK;
\* transfer_pool[USB_HOST_MAX_QUEUE_HEADS - 1].horizontal.ptr = TERMINATING_LINK;
PoolTerminate ==
    /\ PoolStatement \in {"term_qh", "term_t"}
    /\ LET st == IF PoolStatement = "term_qh"
                 THEN PoolStore("queue_head_pool", qhHoriz, poolNq, poolNq,
                                TERMINATING_LINK)
                 ELSE PoolStore("transfer_pool", tHoriz, poolNt, poolNq,
                                TERMINATING_LINK)
       IN /\ IF PoolStatement = "term_qh"
             THEN qhHoriz' = st.cells /\ UNCHANGED tHoriz
             ELSE tHoriz' = st.cells /\ UNCHANGED qhHoriz
          /\ poolOutside' = poolOutside \cup st.outside
    /\ PoolAdvance
    /\ UNCHANGED <<queue_head_freelist, transfer_freelist>>

\* The pools are in use: the initialiser has returned and stayed inside the
\* arrays, and no allocation has faulted.
PoolsReady == PoolDone /\ poolOutside = {} /\ ~fault

\* usb_host_allocate_queue_head()
PoolAllocateQueueHead ==
    /\ PoolsReady
    /\ AllocateQueueHead
    /\ heldQh' = heldQh \cup
           ({usb_host_allocate_from_freelist(queue_head_freelist, qhHoriz).allocated}
                \ {NULL})
    /\ UNCHANGED heldT

\* usb_host_free_queue_head(to_free)
PoolFreeQueueHead(to_free) ==
    /\ PoolsReady
    /\ to_free \in heldQh
    /\ FreeQueueHead(to_free)
    /\ heldQh' = heldQh \ {to_free}
    /\ UNCHANGED heldT

\* usb_host_allocate_transfer(): the allocation, then the memset of
\* transfer->td, which goes through NULL when the freelist was empty (the
\* write is dropped, or the core faults).
usb_host_allocate_transfer ==
    /\ PoolsReady
    /\ LET a == usb_host_allocate_from_freelist(transfer_freelist, tHoriz) IN
       IF a.allocated = NULL
       THEN /\ \E outcome \in {"dropped", "fault"} : fault' = (outcome = "fault")
            /\ UNCHANGED <<transfer_freelist, tHoriz, tdNext, tdActive, heldT>>
       ELSE /\ transfer_freelist' = a.head
            /\ tHoriz' = a.cells
            /\ tdNext' = [tdNext EXCEPT ![a.allocated] = NULL]
            /\ tdActive' = [tdActive EXCEPT ![a.allocated] = FALSE]
            /\ heldT' = heldT \cup {a.allocated}
            /\ UNCHANGED fault
    /\ UNCHANGED <<queue_head_freelist, qhHoriz, qhOverlayNext, qhEndpoint,
                   asyncHoriz, pending_transfers, hwCur, cbCount, schedSeq, tQh,
                   nSched, cbLog, lastRet, hung, heldQh>>

\* usb_host_free_transfer(to_free)
usb_host_free_transfer(to_free) ==
    /\ PoolsReady
    /\ to_free \in heldT
    /\ LET r == usb_host_add_to_list(transfer_freelist, tHoriz, to_free) IN
       /\ transfer_freelist' = r.head
       /\ tHoriz' = r.cells
    /\ heldT' = heldT \ {to_free}
    /\ UNCHANGED <<queue_head_freelist, qhHoriz, qhOverlayNext, qhEndpoint,
                   asyncHoriz, pending_transfers, tdNext, tdActive, hwCur,
                   cbCount, schedSeq, tQh, nSched, cbLog, lastRet, fault, hung,
                   heldQh>>

\* Where the other subsystems run, the pools have been initialised.
InitPoolsDone ==
    /\ poolNq = USB_HOST_MAX_QUEUE_HEADS
    /\ poolNt = USB_HOST_MAX_TRANSFER_DESCRIPTORS
    /\ poolPc = Len(usb_host_initialize_storage_pools) + 1
    /\ poolI = 0
    /\ poolOutside = {}
    /\ heldQh = {}
    /\ heldT = {}

\* The descriptors the firmware constructs its device with.
InitConfigurations ==
    /\ configurations = FirmwareConfigurations
    /\ configuration_count = NumConfigurations

InitDescriptors ==
    /\ device_qualifier_descriptor = DeviceQualifierDescriptor
    /\ string_descriptors = FirmwareStrings
    /\ InitConfigurations

InitWalk ==
    /\ epdPc = "idle"
    /\ epdConfiguration = <<>>
    /\ epdAddress = 0
    /\ epdRemaining = 0
    /\ epdExamined = {}
    /\ epdReturn = NULL

InitSchedule ==
    /\ schPc = "idle"
    /\ schQh = NULL
    /\ schAllocated = NULL

\* Both controllers come out of usb_peripheral_reset: nothing enabled,
\* address 0, unconfigured, no status bit set.
InitControllers ==
    controllers = [k \in {0, 1} |-> [endpoints_enabled |-> FALSE,
                                     usbadr |-> 0,
                                     active_configuration |-> 0,
                                     usb_reset_received |-> FALSE]]

InitNak ==
    /\ endptnak = {}
    /\ endptnaken = {}

\* No command is being handled.
InitComms ==
    /\ transPc = "none"
    /\ trans = [data_out_length |-> 0, data_out_max_length |-> 0]
    /\ data_out = 0
    /\ dataOutWritten = {}

\* The SCT out of reset: halted, in state 0, no event configured.
InitSct ==
    /\ sctEvent = [n \in 0..15 |-> [associated_io_pin |-> 0,
                                     associated_io_condition |-> "none",
                                     enabled_in_state |-> {},
                                     load_state |-> FALSE,
                                     next_state |-> 0]]
    /\ halt_sct = TRUE
    /\ sctState = 0
    /\ event_occurred = {}
    /\ sctNxt = FALSE
    /\ sctCaptured = <<>>
    /\ sctEndOfPackets = 0
    /\ new_delineation_data_available = FALSE

InitAux ==
    /\ InitWalk /\ InitSchedule /\ InitControllers /\ InitNak
    /\ InitComms /\ InitSct

InitCtrl ==
    /\ lastOp = [op |-> "none", before |-> <<>>]
    /\ configuration_changed_callback = FALSE
    /\ InitDescriptors
    /\ hwAddress = 0
    /\ InitAux

InitExt == InitPoolsDone /\ InitBytes /\ InitStatus /\ InitIrq /\ InitCtrl

(***************************************************************************)
(* The endpoint control registers.  ENDPTCTRL[i] is the set of its bits    *)
(* that are set, of RXS, RXE, TXS and TXE.                                 *)
(***************************************************************************)
\* As usb_disable_all_endpoints, clearing the receive enables only.
disable_receive_only ==
    [i \in EndpointNumbers |-> EndptctrlRead(i, endptctrl[i] \ {"RXE"})]

\* usb_disable_all_endpoints(device): the registers after its loop.
usb_disable_all_endpoints ==
    [i \in EndpointNumbers |-> EndptctrlRead(i, endptctrl[i] \ {"RXE", "TXE"})]

\* Bit i of a 32-bit mask with one bit per endpoint address, as both
\* ENDPTCOMPLETE and ENDPTPRIME lay them out.
EndpointMaskBit(address) == IF address >= 128 THEN 16 + (address - 128) ELSE address

\* usb_endpoint_flush(endpoint), start to end: the software queue is emptied
\* and the primed endpoint is flushed.
Flushed(addresses) ==
    /\ queueTail' = [a \in EndpointAddresses |->
                        IF a \in addresses THEN NULL ELSE queueTail[a]]
    /\ endptprime' = endptprime \ addresses
    /\ endptstat' = endptstat \ addresses
    /\ hwTd' = [a \in EndpointAddresses |-> IF a \in addresses THEN NULL ELSE hwTd[a]]

\* usb_endpoint_enable(endpoint)
usb_endpoint_enable(address) ==
    /\ isrPc = "idle" /\ appPc = "idle"
    /\ LET number == address % 128 IN
       endptctrl' = [endptctrl EXCEPT ![number] =
                        EndptctrlRead(number,
                                      @ \cup {IF address >= 128 THEN "TXE" ELSE "RXE"})]
    /\ UNCHANGED <<stdVars, endptsetupstat, endptprime, endptflush, endptstat,
                   usbcmd_atdtw, epVars, tdVars, hwVars, isrVars, appVars, nSetups,
                   nTds, hostVars, poolVars, bytesVars, statusVars, irqVars>>

\* usb_endpoint_disable(endpoint): the enable bit is cleared, then the pending
\* interrupts of the endpoint are cleared with its ENDPTCOMPLETE mask and the
\* endpoint is flushed.  The two NAK registers usb_clear_pending_interrupts
\* also writes are followed by usb_clear_pending_interrupts_nak.
usb_endpoint_disable(address) ==
    /\ isrPc = "idle" /\ appPc = "idle"
    /\ LET number == address % 128 IN
       endptctrl' = [endptctrl EXCEPT ![number] =
                        EndptctrlRead(number,
                                      @ \ {IF address >= 128 THEN "TXE" ELSE "RXE"})]
    \* usb_clear_pending_interrupts(to_clear, device)
    /\ usbsts' = WriteOneToClear(usbsts, {EndpointMaskBit(address)})
    /\ endptsetupstat' = WriteOneToClear(endptsetupstat,
                                         endptsetupstat \cap {EndpointMaskBit(address)})
    /\ endptcomplete' = WriteOneToClear(endptcomplete, endptcomplete \cap {address})
    /\ Flushed({address})
    /\ UNCHANGED <<stdVars, endptflush, usbcmd_atdtw, epVars, dqhNext, dtdNext,
                   dtdActive, hwHazard, hwLatched, isrVars, appVars, nSetups, nTds,
                   hostVars, poolVars, bytesVars, usbintr, gsPc, gsStatus,
                   gsReturned, gsRaised, epTransferComplete, dPc, dCall, dI, dIn,
                   dSnapshot, dLog, nCompletions>>

\* usb_endpoint_stall(endpoint): both stall bits of the endpoint's register
\* are set; endpoint 0 is flushed on both sides.
usb_endpoint_stall(address) ==
    /\ isrPc = "idle" /\ appPc = "idle"
    /\ LET number == address % 128 IN
       /\ endptctrl' = [endptctrl EXCEPT ![number] =
                           EndptctrlRead(number, @ \cup {"RXS", "TXS"})]
       /\ Flushed(IF number = 0
                  THEN {usb_endpoint_address(TRUE, 0), usb_endpoint_address(FALSE, 0)}
                  ELSE {})
    /\ UNCHANGED <<stdVars, endptsetupstat, endptflush, usbcmd_atdtw, epVars,
                   dqhNext, dtdNext, dtdActive, hwHazard, hwLatched, isrVars,
                   appVars, nSetups, nTds, hostVars, poolVars, bytesVars,
                   statusVars, irqVars>>

(***************************************************************************)
(* The configuration-changed callback.                                     *)
(***************************************************************************)
\* As the guarded call, with the guard always false.
callback_never_fires(configuration_value) == FALSE

\* usb_set_configuration: if (device->configuration_changed_callback)
\* device->configuration_changed_callback(device), reached when the function
\* has not failed out.
configuration_changed_callback_fires(configuration_value) ==
    /\ usb_set_configuration(configuration_value).rc = 0
    /\ configuration_changed_callback

(***************************************************************************)
(* Bus reset.                                                              *)
(***************************************************************************)
\* usb_handle_bus_reset(device), run from the ISR; the controller has
\* negotiated `speed`.
usb_handle_bus_reset(speed) ==
    /\ isrPc = "idle" /\ appPc = "idle"
    /\ portsc_speed' = speed
    \* pending interrupts are cleared and every primed endpoint is flushed
    \* usb_reset_all_endpoints: the enable bits of every endpoint are written
    \* to zero,
    /\ endptctrl' = usb_disable_all_endpoints
    /\ usbsts' = WriteOneToClear(usbsts, StatusBits)
    /\ endptcomplete' = {}
    /\ endptsetupstat' = {}
    /\ endptprime' = {}
    /\ endptflush' = {}
    /\ endptstat' = {}
    /\ hwTd' = [a \in EndpointAddresses |-> NULL]
    /\ hwHazard' = {}
    \* usb_set_address_immediate(device, 0)
    /\ deviceaddr' = [usbadr |-> 0, usbadra |-> FALSE]
    \* usb_set_configuration(device, 0)
    /\ active_configuration' = usb_set_configuration(0).active
    /\ UNCHANGED <<configuration_index, stdReply, usbcmd_atdtw, epVars, tdVars,
                   hwLatched, isrVars, appVars, nSetups, nTds>>

InitDevice ==
    /\ InitStd
    /\ InitRegisters
    /\ InitAppend
    /\ epSetupComplete = [i \in EndpointNumbers |-> TRUE]

(***************************************************************************)
(* The host-mode system: the main context sets up endpoints and schedules  *)
(* transfers, the controller runs them, the interrupt handler reaps them.  *)
(***************************************************************************)
Init == InitHost /\ InitDevice /\ InitExt

Running == ~fault /\ ~hung

Next ==
    \/ Running /\ SetUpEndpoint(NULL, USB_SPEED_HIGH, FALSE)
               /\ UNCHANGED <<devVars, extVars>>
    \/ Running /\ (\E q \in QHs : usb_host_transfer_schedule(q))
               /\ UNCHANGED <<devVars, extVars>>
    \/ Running /\ (\E q \in QHs : HwFetch(q))
               /\ UNCHANGED <<devVars, extVars>>
    \/ Running /\ (\E q \in QHs : HwRetire(q))
               /\ UNCHANGED <<devVars, extVars>>
    \/ Running /\ usb_host_handle_asynchronous_transfer_complete
               /\ UNCHANGED <<devVars, extVars>>

Spec == Init /\ [][Next]_vars

(***************************************************************************)
(* The queue-head pool and the ring alone: queue heads are allocated,      *)
(* freed, and set up (a fresh one, or one the caller already holds).       *)
(***************************************************************************)
NextRing ==
    \/ AllocateQueueHead /\ UNCHANGED <<devVars, extVars>>
    \/ (\E q \in QHs : FreeQueueHead(q)) /\ UNCHANGED <<devVars, extVars>>
    \/ /\ \E q \in QHs \cup {NULL}, speed \in {USB_SPEED_FULL, USB_SPEED_HIGH},
             is_control \in BOOLEAN : SetUpEndpoint(q, speed, is_control)
       /\ UNCHANGED <<devVars, extVars>>

SpecRing == Init /\ [][NextRing]_vars

(***************************************************************************)
(* The encoding of a queue head: an endpoint queue is set up for every     *)
(* usb_speed_t value, for control and other endpoints, with and without    *)
(* data-toggle handling.                                                   *)
(***************************************************************************)
\* The queue head usb_host_set_up_asynchronous_endpoint_queue returns.
SetUpReturn(qhArg) ==
    IF qhArg = NULL
    THEN usb_host_allocate_from_freelist(queue_head_freelist, qhHoriz).allocated
    ELSE qhArg

SetUpQueue(qhArg, endpoint_speed, is_control_endpoint, handle_data_toggle) ==
    /\ qhArg # NULL => ~OnQueueHeadFreelist(qhArg)
    /\ usb_host_set_up_asynchronous_endpoint_queue(qhArg, 5, 1, endpoint_speed,
           is_control_endpoint, handle_data_toggle, 512)
    /\ lastOp' = [op |-> "set_up",
                  before |-> <<SetUpReturn(qhArg), endpoint_speed,
                               is_control_endpoint, handle_data_toggle>>]
    /\ UNCHANGED <<transfer_freelist, pending_transfers, tHoriz, tdNext,
                   tdActive, hwCur, cbCount, schedSeq, tQh, nSched, cbLog,
                   lastRet, fault, hung>>
    /\ UNCHANGED <<devVars, poolVars, bytesVars, statusVars, irqVars,
                   deviceFields, hwAddress>>

Speeds == {USB_SPEED_LOW, USB_SPEED_FULL, USB_SPEED_HIGH, USB_SPEED_SUPER}

\* The queue head the caller holds: the one the last set-up returned.
HeldQueueHeads ==
    IF lastOp.op = "set_up" /\ lastOp.before[1] # NULL
    THEN {lastOp.before[1]} ELSE {}

\* The driver under test opens at most this many endpoint queues.
MaxEndpointQueues == 2

AllocatedQueueHeads == {q \in QHs : ~OnQueueHeadFreelist(q)}

NextEncode ==
    \E q \in HeldQueueHeads \cup {NULL}, speed \in Speeds,
       is_control \in BOOLEAN, handle_data_toggle \in BOOLEAN :
           /\ q = NULL => Cardinality(AllocatedQueueHeads) < MaxEndpointQueues
           /\ SetUpQueue(q, speed, is_control, handle_data_toggle)

SpecEncode == Init /\ [][NextEncode]_vars

(***************************************************************************)
(* The standard-request engine alone: the host sends requests and resets   *)
(* the bus.                                                                *)
(***************************************************************************)
NextStd ==
    \/ (\E src \in SetupPackets : usb_standard_request(usb_copy_setup(src)))
           /\ UNCHANGED <<hostVars, extVars>>
    \/ (\E speed \in {USB_SPEED_FULL, USB_SPEED_HIGH} : usb_handle_bus_reset(speed))
           /\ UNCHANGED <<resetFrame, ctrlVars>>

SpecStd == Init /\ [][NextStd]_vars

(***************************************************************************)
(* The setup intake: the host sends SETUP packets to the control           *)
(* endpoints, the main context primes their IN sides, the controller       *)
(* finishes primes and flushes, and the ISR runs                           *)
(* usb_check_for_setup_events.  An endpoint may or may not have a          *)
(* setup_complete callback.                                                *)
(***************************************************************************)
\* The packet the host sends: GET_CONFIGURATION.
IsrSetupPackets ==
    {<<128, USB_STANDARD_REQUEST_GET_CONFIGURATION, 0, 0, 0, 0, 1, 0>>}

\* The number of responses the main context primes.
MaxSetupPrimes == 1

InitSetup ==
    /\ InitHost
    /\ InitStd
    /\ InitRegisters
    /\ InitAppend
    /\ InitExt
    /\ epSetupComplete \in [EndpointNumbers -> BOOLEAN]

NextSetup ==
    \/ IsrEnter /\ UNCHANGED <<hostVars, stdVars, extVars>>
    \/ IsrScan /\ UNCHANGED <<hostVars, stdVars, extVars>>
    \/ IsrCopySetup /\ UNCHANGED <<hostVars, stdVars, extVars>>
    \/ usb_clear_endpoint_setup_status_write /\ UNCHANGED <<hostVars, stdVars, extVars>>
    \/ usb_clear_endpoint_setup_status_wait /\ UNCHANGED <<hostVars, stdVars, extVars>>
    \/ usb_endpoint_flush /\ UNCHANGED <<hostVars, stdVars, extVars>>
    \/ usb_wait_for_endpoint_priming_to_finish /\ UNCHANGED <<hostVars, stdVars, extVars>>
    \/ usb_flush_endpoints /\ UNCHANGED <<hostVars, stdVars, extVars>>
    \/ usb_wait_for_endpoint_flushing_to_finish /\ UNCHANGED <<hostVars, stdVars, extVars>>
    \/ IsrSetupComplete /\ UNCHANGED <<hostVars, stdVars, extVars>>
    \/ (\E i \in EndpointNumbers, src \in IsrSetupPackets : HwSetupReceived(i, src))
           /\ UNCHANGED <<hostVars, stdVars, extVars>>
    \/ /\ nTds < MaxSetupPrimes
       /\ \E i \in EndpointNumbers :
              usb_endpoint_schedule_wait(usb_endpoint_address(TRUE, i), nTds + 1)
       /\ UNCHANGED <<hostVars, stdVars, extVars>>
    \/ (\E a \in EndpointAddresses : HwPrimeComplete(a))
           /\ UNCHANGED <<hostVars, stdVars, extVars>>
    \/ (\E a \in EndpointAddresses : HwFlushComplete(a))
           /\ UNCHANGED <<hostVars, stdVars, extVars>>

SpecSetup == InitSetup /\ [][NextSetup]_vars

(***************************************************************************)
(* Appending to a live endpoint: the main context primes a bulk IN         *)
(* endpoint and appends TDs to its queue while the controller primes the   *)
(* endpoint and retires its TDs.                                           *)
(***************************************************************************)
AppendEndpoints == {usb_endpoint_address(TRUE, NumEndpoints - 1)}

NextAppend ==
    \/ (\E a \in AppendEndpoints : usb_endpoint_schedule_wait(a, nTds + 1))
           /\ UNCHANGED <<hostVars, stdVars, extVars>>
    \/ (\E a \in AppendEndpoints : usb_endpoint_schedule_append(a))
           /\ UNCHANGED <<hostVars, stdVars, extVars>>
    \/ AppendIsPriming /\ UNCHANGED <<hostVars, stdVars, extVars>>
    \/ AppendSetAtdtw /\ UNCHANGED <<hostVars, stdVars, extVars>>
    \/ AppendIsReady /\ UNCHANGED <<hostVars, stdVars, extVars>>
    \/ AppendTestAtdtw /\ UNCHANGED <<hostVars, stdVars, extVars>>
    \/ AppendClearAtdtw /\ UNCHANGED <<hostVars, stdVars, extVars>>
    \/ AppendPrime /\ UNCHANGED <<hostVars, stdVars, extVars>>
    \/ (\E a \in EndpointAddresses : HwPrimeComplete(a))
           /\ UNCHANGED <<hostVars, stdVars, extVars>>
    \/ (\E a \in EndpointAddresses : HwBeginRetire(a))
           /\ UNCHANGED <<hostVars, stdVars, extVars>>
    \/ (\E a \in EndpointAddresses : HwEndRetire(a))
           /\ UNCHANGED <<hostVars, stdVars, extVars>>

SpecAppend == Init /\ [][NextAppend]_vars

(***************************************************************************)
(* The pools alone, in every build with up to MaxPoolEntries queue heads   *)
(* and transfers: the static storage is zero, the initialiser runs, and    *)
(* the caller allocates objects and frees objects it holds.                *)
(***************************************************************************)
InitPool ==
    /\ InitDevice
    /\ InitBytes
    /\ InitStatus
    /\ InitIrq
    /\ InitCtrl
    /\ poolNq \in 1..MaxPoolEntries
    /\ poolNt \in 1..MaxPoolEntries
    /\ poolPc = 1
    /\ poolI = 0
    /\ poolOutside = {}
    /\ heldQh = {}
    /\ heldT = {}
    /\ queue_head_freelist = ZERO_LINK
    /\ transfer_freelist = ZERO_LINK
    /\ qhHoriz = [q \in 1..poolNq |-> ZERO_LINK]
    /\ tHoriz = [t \in 1..poolNt |-> ZERO_LINK]
    /\ qhOverlayNext = [q \in 1..poolNq |-> NULL]
    /\ qhEndpoint = [q \in 1..poolNq |-> ZERO_ENDPOINT]
    /\ asyncHoriz = Link(SENTINEL, DESCRIPTOR_QH, FALSE)
    /\ pending_transfers = TERMINATING_LINK
    /\ tdNext = [t \in 1..poolNt |-> NULL]
    /\ tdActive = [t \in 1..poolNt |-> FALSE]
    /\ hwCur = [q \in 1..poolNq |-> NULL]
    /\ cbCount = [t \in 1..poolNt |-> 0]
    /\ schedSeq = [t \in 1..poolNt |-> 0]
    /\ tQh = [t \in 1..poolNt |-> NULL]
    /\ nSched = 0
    /\ cbLog = <<>>
    /\ lastRet = 0
    /\ fault = FALSE
    /\ hung = FALSE

PoolInitialiserFrame ==
    UNCHANGED <<qhOverlayNext, qhEndpoint, asyncHoriz, pending_transfers, tdNext,
                tdActive, hwCur, cbCount, schedSeq, tQh, nSched, cbLog, lastRet,
                fault, hung, poolNq, poolNt, heldQh, heldT, devVars, bytesVars, statusVars, irqVars, ctrlVars>>

PoolUseFrame ==
    UNCHANGED <<poolNq, poolNt, poolPc, poolI, poolOutside, devVars, bytesVars, statusVars, irqVars, ctrlVars>>

NextPool ==
    \/ PoolSetHead /\ PoolInitialiserFrame
    \/ PoolLinkLoop /\ PoolInitialiserFrame
    \/ PoolTerminate /\ PoolInitialiserFrame
    \/ PoolAllocateQueueHead /\ PoolUseFrame
    \/ (\E q \in 1..MaxPoolEntries : PoolFreeQueueHead(q)) /\ PoolUseFrame
    \/ usb_host_allocate_transfer /\ PoolUseFrame
    \/ (\E t \in 1..MaxPoolEntries : usb_host_free_transfer(t)) /\ PoolUseFrame

SpecPool == InitPool /\ [][NextPool]_vars

(***************************************************************************)
(* The byte counters: transfers of several lengths are scheduled on one    *)
(* queue head, the controller moves some or all of their bytes, and the    *)
(* interrupt handler reaps them.                                           *)
(***************************************************************************)
MaxByteSchedules == 2

\* The lengths the caller asks for: none, one packet, the example of the
\* specification, and the lengths around the width of the byte counter.
TransferLengths ==
    {0, 512, 1024, 2 ^ TOTAL_BYTES_BITS - 1, 2 ^ TOTAL_BYTES_BITS,
     2 ^ TOTAL_BYTES_BITS + 1024}

\* What the controller may have moved of a TD of n bytes.
MovedOf(n) == {0, n} \cup {k \in {512} : k < n}

NextBytes ==
    \/ /\ Running /\ (\A q \in QHs : ~InRing(q))
       /\ SetUpEndpoint(NULL, USB_SPEED_HIGH, FALSE)
       /\ UNCHANGED <<devVars, extVars>>
    \/ /\ Running /\ nSched < MaxByteSchedules
       /\ \E q \in QHs, len \in TransferLengths : ScheduleBytes(q, len)
       /\ UNCHANGED <<devVars, poolVars, statusVars, irqVars, ctrlVars>>
    \/ Running /\ (\E q \in QHs : HwFetch(q))
               /\ UNCHANGED <<devVars, extVars>>
    \/ /\ Running
       /\ \E q \in QHs, halted, transaction_error \in BOOLEAN :
             /\ hwCur[q] # NULL
             /\ \E k \in MovedOf(tdTotalBytes[hwCur[q]]) :
                    HwRetireBytes(q, k, halted, transaction_error)
       /\ UNCHANGED <<devVars, poolVars, statusVars, irqVars, ctrlVars>>
    \/ Running /\ ReapBytes /\ UNCHANGED <<devVars, poolVars, statusVars, irqVars, ctrlVars>>

SpecBytes == Init /\ [][NextBytes]_vars

(***************************************************************************)
(* The status register on its own: any set of enabled interrupts, the      *)
(* controller raising bits at any moment, usb_get_status called over and   *)
(* over.                                                                   *)
(***************************************************************************)
InitStatusAny ==
    /\ InitHost /\ InitDevice /\ InitPoolsDone /\ InitBytes /\ InitIrq /\ InitCtrl
    /\ usbsts \in SUBSET StatusBits
    /\ usbintr \in SUBSET StatusBits
    /\ gsPc = "idle"
    /\ gsStatus = {}
    /\ gsReturned = {}
    /\ gsRaised = {}

NextStatus ==
    \/ (\E bit \in StatusBits : HwRaiseStatus(bit))
           /\ UNCHANGED <<hostVars, devVars, poolVars, bytesVars, irqVars, ctrlVars>>
    \/ GetStatusRead /\ UNCHANGED <<hostVars, devVars, poolVars, bytesVars, irqVars, ctrlVars>>
    \/ GetStatusWriteBack /\ UNCHANGED <<hostVars, devVars, poolVars, bytesVars, irqVars, ctrlVars>>

SpecStatus == InitStatusAny /\ [][NextStatus]_vars

(***************************************************************************)
(* usb_device_isr on its own: endpoint 0 with or without setup_complete,    *)
(* its IN side with or without transfer_complete, the controller raising   *)
(* setup and completion events at any moment.                              *)
(***************************************************************************)
InitIsr ==
    /\ InitHost /\ InitStd /\ InitRegisters /\ InitAppend
    /\ InitPoolsDone /\ InitBytes /\ InitStatus /\ InitCtrl
    /\ \E none \in SUBSET {0} :
           epSetupComplete = [i \in EndpointNumbers |-> i \notin none]
    /\ \E none \in SUBSET {usb_endpoint_address(TRUE, 0)} :
           epTransferComplete = [a \in EndpointAddresses |-> a \notin none]
    /\ endptcomplete = {}
    /\ dPc = "idle"
    /\ dCall = 1
    /\ dI = 0
    /\ dIn = FALSE
    /\ dSnapshot = {}
    /\ dLog = <<>>
    /\ nCompletions = 0

NextIsr ==
    \/ DevIsrGetStatusRead /\ UNCHANGED <<hostVars, devVars, poolVars, bytesVars, ctrlVars>>
    \/ DevIsrGetStatusWriteBack /\ UNCHANGED <<hostVars, devVars, poolVars, bytesVars, ctrlVars>>
    \/ DevIsrEnterCall /\ UNCHANGED <<hostVars, poolVars, bytesVars, ctrlVars>>
    \/ DevIsrSetupScan /\ UNCHANGED <<hostVars, poolVars, bytesVars, ctrlVars>>
    \/ DevIsrTransferScan /\ UNCHANGED <<hostVars, poolVars, bytesVars, ctrlVars>>
    \/ (\E i \in EndpointNumbers, src \in IsrSetupPackets : HwSetupInterrupt(i, src))
           /\ UNCHANGED <<hostVars, poolVars, bytesVars, ctrlVars>>
    \/ (\E a \in EndpointAddresses : HwTransferInterrupt(a))
           /\ UNCHANGED <<hostVars, poolVars, bytesVars, ctrlVars>>

SpecIsr == InitIsr /\ [][NextIsr]_vars

(***************************************************************************)
(* The endpoint control registers under the standard requests, bus reset   *)
(* and the enabling, disabling and stalling of endpoints.                  *)
(***************************************************************************)
\* What the operation found: kept for a bus reset.
Found(op) ==
    [op |-> op,
     before |-> IF op = "bus_reset"
                THEN <<deviceaddr, active_configuration, endptctrl>> ELSE <<>>]

NextCtrl ==
    \/ /\ \E src \in SetupPackets : usb_standard_request(usb_copy_setup(src))
       /\ lastOp' = Found("standard_request")
       /\ UNCHANGED <<deviceFields, hwAddress>>
       /\ UNCHANGED <<hostVars, poolVars, bytesVars, statusVars, irqVars>>
    \/ /\ \E speed \in {USB_SPEED_FULL, USB_SPEED_HIGH} : usb_handle_bus_reset(speed)
       /\ lastOp' = Found("bus_reset")
       /\ hwAddress' = 0
       /\ UNCHANGED deviceFields
       /\ UNCHANGED resetFrame
    \/ /\ \E a \in EndpointAddresses : usb_endpoint_enable(a)
       /\ lastOp' = Found("enable")
       /\ UNCHANGED <<deviceFields, hwAddress>>
    \/ /\ \E a \in EndpointAddresses : usb_endpoint_disable(a)
       /\ lastOp' = Found("disable")
       /\ UNCHANGED <<deviceFields, hwAddress>>
    \/ /\ \E a \in EndpointAddresses : usb_endpoint_stall(a)
       /\ lastOp' = Found("stall")
       /\ UNCHANGED <<deviceFields, hwAddress>>

SpecCtrl == Init /\ [][NextCtrl]_vars

(***************************************************************************)
(* The configuration requests, with or without a configuration-changed     *)
(* callback registered.                                                    *)
(***************************************************************************)
\* The configuration value is that of a descriptor of the pool of the
\* current speed.
InCurrentPool(configuration_value) ==
    \E i \in 1..(Len(ConfigurationPool(usb_current_device_speed)) - 1) :
        ConfigurationPool(usb_current_device_speed)[i] = configuration_value

\* What a standard request found: the value a SET_CONFIGURATION asked for,
\* whether the pool had it and whether the callback fired; for a
\* GET_CONFIGURATION its wLength and what the request right before it found.
FoundRequest(setup) ==
    IF setup.request = USB_STANDARD_REQUEST_SET_CONFIGURATION
    THEN [op |-> "set_configuration",
          before |-> <<setup.value_l, InCurrentPool(setup.value_l),
                       configuration_changed_callback_fires(setup.value_l)>>]
    ELSE IF setup.request = USB_STANDARD_REQUEST_GET_CONFIGURATION
    THEN [op |-> "get_configuration",
          before |-> <<setup.length>> \o
                     (IF lastOp.op = "set_configuration" THEN lastOp.before ELSE <<>>)]
    ELSE [op |-> "standard_request", before |-> <<>>]

InitCfg ==
    /\ InitHost /\ InitDevice /\ InitPoolsDone /\ InitBytes /\ InitStatus /\ InitIrq
    /\ lastOp = [op |-> "none", before |-> <<>>]
    /\ configuration_changed_callback \in BOOLEAN
    /\ InitDescriptors
    /\ hwAddress = 0
    /\ InitAux

NextCfg ==
    \/ /\ \E src \in SetupPackets :
              /\ usb_standard_request(usb_copy_setup(src))
              /\ lastOp' = FoundRequest(usb_copy_setup(src))
       /\ UNCHANGED <<hostVars, poolVars, bytesVars, statusVars, irqVars,
                      deviceFields, hwAddress>>
    \/ /\ \E speed \in {USB_SPEED_FULL, USB_SPEED_HIGH} : usb_handle_bus_reset(speed)
       /\ lastOp' = Found("bus_reset")
       /\ hwAddress' = 0
       /\ UNCHANGED <<resetFrame, deviceFields>>

SpecCfg == InitCfg /\ [][NextCfg]_vars

(***************************************************************************)
(* GET_DESCRIPTOR requests, on devices with and without a device           *)
(* qualifier and with each of the string lists, at either speed.           *)
(***************************************************************************)
\* wLength, as its low and high byte: 0, 2, 9, 255 and 257.
RequestLengths == {<<0, 0>>, <<2, 0>>, <<9, 0>>, <<255, 0>>, <<1, 1>>}

\* GET_DESCRIPTOR of every type from 0 to 8, an index up to one past the
\* last configuration, 5 or 255.
DescriptorPackets ==
    {<<128, USB_STANDARD_REQUEST_GET_DESCRIPTOR, index, type, 0, 0, l[1], l[2]>> :
        index \in 0..(NumConfigurations + 1) \cup {5, 255},
        type \in 0..8, l \in RequestLengths}

\* The request a step handles, and the state it found.
FoundSetup(setup) ==
    [op |-> "request",
     before |-> <<setup, active_configuration, deviceaddr, hwAddress>>]

InitDesc ==
    /\ InitHost /\ InitDevice /\ InitPoolsDone /\ InitBytes /\ InitStatus /\ InitIrq
    /\ lastOp = [op |-> "none", before |-> <<>>]
    /\ configuration_changed_callback = FALSE
    /\ device_qualifier_descriptor \in {NULL_DESCRIPTOR, DeviceQualifierDescriptor}
    /\ string_descriptors \in StringLists
    /\ InitConfigurations
    /\ hwAddress = 0
    /\ InitAux

NextDesc ==
    \/ /\ \E src \in DescriptorPackets :
              /\ usb_standard_request(usb_copy_setup(src))
              /\ lastOp' = FoundSetup(usb_copy_setup(src))
       /\ UNCHANGED <<hostVars, poolVars, bytesVars, statusVars, irqVars,
                      deviceFields, hwAddress>>
    \/ /\ \E speed \in {USB_SPEED_FULL, USB_SPEED_HIGH} : usb_handle_bus_reset(speed)
       /\ lastOp' = Found("bus_reset")
       /\ hwAddress' = 0
       /\ UNCHANGED <<resetFrame, deviceFields>>

SpecDesc == InitDesc /\ [][NextDesc]_vars

(***************************************************************************)
(* The decoding of bmRequestType: a setup packet is copied and its         *)
(* direction, type and recipient are read.                                 *)
(***************************************************************************)
\* GET_STATUS packets with every value of byte 0.
RequestTypePackets ==
    {<<b, USB_STANDARD_REQUEST_GET_STATUS, 0, 0, 0, 0, 2, 0>> : b \in 0..255}

DecodeSetup(src) ==
    /\ LET setup == usb_copy_setup(src) IN
       lastOp' = [op |-> "copy_setup",
                  before |-> <<src[1], setup_direction(setup), setup_type(setup),
                               setup_recipient(setup)>>]
    /\ UNCHANGED <<hostVars, devVars, poolVars, bytesVars, statusVars, irqVars,
                   deviceFields, hwAddress>>

NextDecode == \E src \in RequestTypePackets : DecodeSetup(src)

SpecDecode == Init /\ [][NextDecode]_vars

(***************************************************************************)
(* The lookup of a configuration descriptor, on devices with pools of      *)
(* every length up to NumConfigurations and every configuration_count.     *)
(***************************************************************************)
\* The pools of up to NumConfigurations descriptors with values of their
\* own from 1 to NumConfigurations, each with its NULL terminator.
PoolArrays ==
    {values \o <<NULL>> :
        values \in {f \in UNION {[1..n -> 1..NumConfigurations] :
                                    n \in 0..NumConfigurations} :
                        \A i, j \in DOMAIN f : f[i] = f[j] => i = j}}

\* What a call that has read through the NULL terminator can return: a
\* fault, NULL, or a pointer to any descriptor.
Outcomes(config) ==
    IF config = WILD_CONFIGURATION
    THEN {WILD_CONFIGURATION, NULL_CONFIGURATION}
         \cup {[pool |-> speed, index |-> i] :
                  speed \in {USB_SPEED_FULL, USB_SPEED_HIGH},
                  i \in 1..NumConfigurations}
    ELSE {config}

\* A call of usb_find_configuration_descriptor or of
\* usb_find_other_speed_configuration_descriptor.
FindCall(configuration_value, is_other_speed) ==
    /\ \E config \in Outcomes(
              IF is_other_speed
              THEN usb_find_other_speed_configuration_descriptor(configuration_value)
              ELSE usb_find_configuration_descriptor(configuration_value)) :
          lastOp' = [op |-> IF is_other_speed THEN "find_other" ELSE "find",
                     before |-> <<configuration_value, config>>]
    /\ UNCHANGED <<hostVars, devVars, poolVars, bytesVars, statusVars, irqVars,
                   deviceFields, hwAddress>>

InitFind ==
    /\ InitHost /\ InitDevice /\ InitPoolsDone /\ InitBytes /\ InitStatus /\ InitIrq
    /\ lastOp = [op |-> "none", before |-> <<>>]
    /\ configuration_changed_callback = FALSE
    /\ device_qualifier_descriptor = DeviceQualifierDescriptor
    /\ string_descriptors = FirmwareStrings
    /\ configurations \in [{USB_SPEED_FULL, USB_SPEED_HIGH} -> PoolArrays]
    /\ configuration_count \in 0..NumConfigurations
    /\ hwAddress = 0
    /\ InitAux

NextFind ==
    \/ \E configuration_value \in 0..(NumConfigurations + 1),
          is_other_speed \in BOOLEAN :
           FindCall(configuration_value, is_other_speed)
    \/ /\ \E speed \in {USB_SPEED_FULL, USB_SPEED_HIGH} : usb_handle_bus_reset(speed)
       /\ lastOp' = Found("bus_reset")
       /\ hwAddress' = 0
       /\ UNCHANGED <<resetFrame, deviceFields>>

SpecFind == InitFind /\ [][NextFind]_vars

(***************************************************************************)
(* The requests without a handler, GET_STATUS and SET_ADDRESS; the         *)
(* controller completes the status stage of a SET_ADDRESS.                 *)
(***************************************************************************)
\* The request codes the engine has no handler for, among 0..13 and 255.
UnimplementedRequests ==
    (0..13 \cup {255}) \ {USB_STANDARD_REQUEST_GET_STATUS,
                          USB_STANDARD_REQUEST_SET_ADDRESS,
                          USB_STANDARD_REQUEST_GET_DESCRIPTOR,
                          USB_STANDARD_REQUEST_GET_CONFIGURATION,
                          USB_STANDARD_REQUEST_SET_CONFIGURATION}

\* Requests with no handler; GET_STATUS of every length; SET_ADDRESS with
\* wValue 42, 130 and 256 + 42.
OtherPackets ==
    {<<0, r, 1, 0, 0, 0, 0, 0>> : r \in UnimplementedRequests}
    \cup {<<128, USB_STANDARD_REQUEST_GET_STATUS, 0, 0, 0, 0, l[1], l[2]>> :
              l \in RequestLengths}
    \cup {<<0, USB_STANDARD_REQUEST_SET_ADDRESS, 42, 0, 0, 0, 0, 0>>,
          <<0, USB_STANDARD_REQUEST_SET_ADDRESS, 130, 0, 0, 0, 0, 0>>,
          <<0, USB_STANDARD_REQUEST_SET_ADDRESS, 42, 1, 0, 0, 0, 0>>}

RequestPackets == SetupPackets \cup OtherPackets

\* The controller, on the acknowledged IN of the status stage on endpoint 0:
\* with USBADRA set it loads the address from the staged value and clears
\* the bit.
HwStatusStageComplete ==
    /\ deviceaddr.usbadra
    /\ stdReply.ack = "in"
    /\ hwAddress' = deviceaddr.usbadr
    /\ deviceaddr' = [deviceaddr EXCEPT !.usbadra = FALSE]
    /\ UNCHANGED <<active_configuration, configuration_index, portsc_speed,
                   stdReply, regVars, epVars, tdVars, hwVars, isrVars, appVars,
                   nSetups, nTds>>

\* The controller, on a SETUP or OUT on endpoint 0 that arrives with USBADRA
\* still set: it clears the bit and keeps its address.
HwStatusStageAbandoned ==
    /\ deviceaddr.usbadra
    /\ deviceaddr' = [deviceaddr EXCEPT !.usbadra = FALSE]
    /\ UNCHANGED <<active_configuration, configuration_index, portsc_speed,
                   stdReply, regVars, epVars, tdVars, hwVars, isrVars, appVars,
                   nSetups, nTds>>

InitReq ==
    /\ InitHost /\ InitDevice /\ InitPoolsDone /\ InitBytes /\ InitStatus /\ InitIrq
    /\ lastOp = [op |-> "none", before |-> <<>>]
    /\ configuration_changed_callback = FALSE
    /\ InitDescriptors
    /\ hwAddress = 0
    /\ InitAux

NextReq ==
    \/ /\ ~deviceaddr.usbadra
       /\ \E src \in RequestPackets :
              /\ usb_standard_request(usb_copy_setup(src))
              /\ lastOp' = FoundSetup(usb_copy_setup(src))
       /\ UNCHANGED <<hostVars, poolVars, bytesVars, statusVars, irqVars,
                      deviceFields, hwAddress>>
    \/ /\ HwStatusStageComplete
       /\ lastOp' = [op |-> "status_stage", before |-> lastOp.before]
       /\ UNCHANGED <<hostVars, poolVars, bytesVars, statusVars, irqVars,
                      deviceFields>>
    \/ /\ HwStatusStageAbandoned
       /\ lastOp' = [op |-> "abandoned", before |-> lastOp.before]
       /\ UNCHANGED <<hostVars, poolVars, bytesVars, statusVars, irqVars,
                      deviceFields, hwAddress>>
    \/ /\ \E speed \in {USB_SPEED_FULL, USB_SPEED_HIGH} : usb_handle_bus_reset(speed)
       /\ lastOp' = Found("bus_reset")
       /\ hwAddress' = 0
       /\ UNCHANGED <<resetFrame, deviceFields>>

SpecReq == InitReq /\ [][NextReq]_vars

(***************************************************************************)
(* Properties of the host-mode queue manager.                              *)
(***************************************************************************)
\* The TDs linked into queue head q's chain: the one in the overlay and the
\* ones that follow the overlay's next pointer.
RECURSIVE TdChainFrom(_, _)
TdChainFrom(t, fuel) ==
    IF t = TD_TERMINATE \/ fuel = 0 THEN {}
    ELSE {t} \cup TdChainFrom(tdNext[t], fuel - 1)

TdChain(q) ==
    TdChainFrom(qhOverlayNext[q], Fuel)
        \cup (IF hwCur[q] = NULL THEN {} ELSE {hwCur[q]})

InSomeTdChain(t) == \E q \in QHs : InRing(q) /\ t \in TdChain(q)

FreeList == Chain(transfer_freelist, tHoriz, Fuel)

\* Every transfer is on exactly one of the two lists, exactly once.
PoolConsistent ==
    \A t \in Transfers :
        Occurrences(t, FreeList) + Occurrences(t, PendingList) = 1

\* C1: one pass of the reaper over a pending list moves every transfer
\* whose active bit is clear from the pending list to the transfer freelist,
\* and leaves every transfer whose active bit is set on the pending list
\* exactly once.
C1_ReaperPassSeparatesCompleted ==
    [][(PoolConsistent /\ usb_host_handle_asynchronous_transfer_complete) =>
        \A t \in Range(PendingList) :
            /\ ~tdActive[t] => /\ Occurrences(t, PendingList') = 0
                               /\ Occurrences(t, FreeList') = 1
            /\ tdActive[t] => Occurrences(t, PendingList') = 1]_vars

\* C2: the completion callback of a scheduled transfer is invoked at most
\* once, and never while the TD's active bit is set.
C2_CallbackOnceAndNotWhileActive ==
    \A t \in Transfers :
        /\ cbCount[t] <= 1
        /\ cbCount[t] = 1 => ~tdActive[t]

\* C3: no transfer is on the transfer freelist and at the same time on the
\* pending list or linked into a queue head's TD chain.
C3_FreeTransferNotReferenced ==
    \A t \in Transfers :
        OnTransferFreelist(t) => ~OnPendingList(t) /\ ~InSomeTdChain(t)

\* C4: the callbacks of one reaper pass for transfers of the same queue head
\* are invoked in the order in which the transfers were scheduled.
C4_CallbacksInInsertionOrder ==
    \A i, j \in 1..Len(cbLog) :
        (i < j /\ cbLog[i].qh = cbLog[j].qh) => cbLog[i].seq < cbLog[j].seq

\* C7: with an empty transfer freelist usb_host_transfer_schedule returns a
\* negative value and writes to no transfer object, list or TD chain.
C7_ExhaustedScheduleFailsCleanly ==
    [][(transfer_freelist.term /\ \E q \in QHs : usb_host_transfer_schedule(q)) =>
        /\ lastRet' < 0
        /\ ~fault'
        /\ UNCHANGED <<transfer_freelist, pending_transfers, tHoriz, tdNext,
                       tdActive, qhOverlayNext>>]_vars

\* C10 as stated: the terminate bit of every queue head's horizontal link is
\* 1 exactly when the queue head is not a member of the asynchronous ring.
C10_TerminateIffNotInRing ==
    \A q \in QHs : qhHoriz[q].term <=> ~InRing(q)

\* C10, amended: for every queue head that is not on the queue-head freelist
\* the terminate bit of the horizontal link is 1 exactly when the queue head
\* is not a member of the asynchronous ring; the sentinel's is 0.
C10_HeldQueueHeadTerminateIffNotInRing ==
    /\ ~asyncHoriz.term
    /\ \A q \in QHs :
           ~OnQueueHeadFreelist(q) => (qhHoriz[q].term <=> ~InRing(q))

\* Some queue head is held outside the ring while another is in the ring.
C10_Witness ==
    \E q1, q2 \in QHs :
        /\ ~OnQueueHeadFreelist(q1) /\ ~InRing(q1) /\ qhHoriz[q1].term
        /\ InRing(q2) /\ ~qhHoriz[q2].term

(***************************************************************************)
(* Properties of the setup intake and of the endpoint flush.               *)
(***************************************************************************)
IsPrefix(s, t) == Len(s) <= Len(t) /\ s = SubSeq(t, 1, Len(s))

\* What the loop body does for endpoint i, as seen in the log.
SetupIntakeOf(i, callback) ==
    <<Event("copy_setup", usb_endpoint_address(FALSE, i)),
      Event("copy_setup", usb_endpoint_address(TRUE, i)),
      Event("clear_setup_status", i),
      Event("setup_status_clear", i),
      Event("flush", usb_endpoint_address(TRUE, i)),
      Event("flushing_finished", usb_endpoint_address(TRUE, i)),
      Event("flush", usb_endpoint_address(FALSE, i)),
      Event("flushing_finished", usb_endpoint_address(FALSE, i))>>
    \o (IF callback THEN <<Event("setup_complete", usb_endpoint_address(FALSE, i))>>
        ELSE <<>>)

\* What a pass does for the endpoints i..NumEndpoints-1 of the snapshot.
RECURSIVE SetupIntakeFrom(_, _, _)
SetupIntakeFrom(i, stat, callbacks) ==
    IF i >= NumEndpoints THEN <<>>
    ELSE (IF i \in stat THEN SetupIntakeOf(i, callbacks[i]) ELSE <<>>)
         \o SetupIntakeFrom(i + 1, stat, callbacks)

IsIntakeEvent(e) ==
    e.ev \in {"copy_setup", "clear_setup_status", "setup_status_clear", "flush",
              "flushing_finished", "setup_complete"}

\* The pass so far is the beginning of `intake`, and all of it once the
\* pass is over.
PassFollows(intake) ==
    /\ IsPrefix(SelectSeq(isrLog, IsIntakeEvent), intake)
    /\ isrPc = "idle" => SelectSeq(isrLog, IsIntakeEvent) = intake

\* C6 as stated: in an ISR pass, for every endpoint whose bit is set in the
\* snapshot of ENDPTSETUPSTAT, in ascending order, the driver copies the
\* setup block to the OUT and to the IN cache, write-clears the setup-status
\* bit and sees it clear, flushes the IN and the OUT endpoint, and then
\* invokes setup_complete exactly once.
C6_SetupIntakeThenCallback ==
    PassFollows(SetupIntakeFrom(0, isrStat, [i \in EndpointNumbers |-> TRUE]))

\* C6, amended: as above, and the final step invokes setup_complete exactly
\* once for an endpoint that has a setup_complete callback and not at all
\* for an endpoint that has none.
C6_SetupIntakeThenCallbackIfRegistered ==
    PassFollows(SetupIntakeFrom(0, isrStat, epSetupComplete))

\* A finished pass that served an endpoint with a callback and an endpoint
\* without one.
C6_Witness ==
    /\ isrPc = "idle"
    /\ isrLog # <<>>
    /\ \E i, j \in isrStat : epSetupComplete[i] /\ ~epSetupComplete[j]

IsFlushEvent(e) ==
    e.ev \in {"flush", "priming_finished", "flush_write", "flushing_finished"}

IsFlushCall(e) == e.ev = "flush"

\* The register steps of the flush calls `calls`, each in the order `steps`.
RECURSIVE FlushStepsOf(_, _)
FlushStepsOf(calls, steps) ==
    IF calls = <<>> THEN <<>>
    ELSE <<Head(calls)>>
         \o [k \in 1..Len(steps) |-> Event(steps[k], Head(calls).ep)]
         \o FlushStepsOf(Tail(calls), steps)

\* Every flush of the pass so far has taken its register steps in the order
\* `steps`, and all of them once it has returned.
FlushesFollow(steps) ==
    /\ IsPrefix(SelectSeq(isrLog, IsFlushEvent),
                FlushStepsOf(SelectSeq(isrLog, IsFlushCall), steps))
    /\ isrFlushStep = 0 =>
           SelectSeq(isrLog, IsFlushEvent) =
               FlushStepsOf(SelectSeq(isrLog, IsFlushCall), steps)

\* C9 as stated: a flush writes the endpoint's FLUSH bit, then waits for its
\* PRIME bit to clear, then waits for its FLUSH bit to clear.
C9_FlushWriteThenPrimeWait ==
    FlushesFollow(<<"flush_write", "priming_finished", "flushing_finished">>)

\* C9, amended: a flush waits for the endpoint's PRIME bit to clear, then
\* writes its FLUSH bit, then waits for its FLUSH bit to clear.
C9_PrimeWaitThenFlushWrite ==
    FlushesFollow(<<"priming_finished", "flush_write", "flushing_finished">>)

\* A flush has run to its end on an endpoint that had been primed, and the
\* endpoint is neither being primed nor ready.
C9_Witness ==
    \E a \in EndpointAddresses :
        /\ dqhNext[a] # TD_TERMINATE
        /\ isrFlushStep = 0
        /\ isrLog # <<>>
        /\ isrLog[Len(isrLog)] = Event("flushing_finished", a)
        /\ a \notin endptprime \cup endptstat

(***************************************************************************)
(* Properties of the append handshake.                                     *)
(***************************************************************************)
\* The TDs reached from TD t through the next pointers.
RECURSIVE DtdChainFrom(_, _)
DtdChainFrom(t, fuel) ==
    IF t = TD_TERMINATE \/ fuel = 0 THEN {}
    ELSE {t} \cup DtdChainFrom(dtdNext[t], fuel - 1)

DtdChain(t) == DtdChainFrom(t, MaxTds + 1)

\* TD n is done, or the controller will come to it: it is in the chain the
\* controller is about to load, works on, or has read the pointer to.
Serviced(n) ==
    \/ ~dtdActive[n]
    \/ \E a \in EndpointAddresses :
          \/ a \in endptprime /\ n \in DtdChain(dqhNext[a])
          \/ a \in endptstat /\ a \notin hwHazard /\ n \in DtdChain(hwTd[a])
          \/ a \in hwHazard /\ n \in DtdChain(hwLatched[a])

\* The call that scheduled TD n has returned.
Returned(n) == n <= nTds /\ ~(appPc # "idle" /\ n = appNew)

\* C8: whatever the interleaving of usb_endpoint_schedule_append with the
\* controller, once the call has returned the appended TD is done or the
\* controller will come to it, and the ATDTW bit is clear.
C8_AppendedTdIsServiced ==
    /\ \A n \in DTDs : Returned(n) => Serviced(n)
    /\ appPc = "idle" => ~usbcmd_atdtw

\* An append that had to repeat the handshake and then primed the endpoint
\* itself has returned, and the controller has completed the appended TD.
C8_Witness ==
    /\ appPc = "idle"
    /\ appRetried
    /\ ~appDone
    /\ appNew # NULL
    /\ dqhNext[appEp] = appNew
    /\ ~dtdActive[appNew]

(***************************************************************************)
(* Properties of the standard-request engine.                              *)
(***************************************************************************)
\* C5: whenever the device is unconfigured, a GET_CONFIGURATION request with
\* wLength = 1 is answered with the single byte 0.
C5_UnconfiguredGetConfigurationRepliesZero ==
    [][\A src \in SetupPackets :
          LET setup == usb_copy_setup(src) IN
          (/\ active_configuration = NULL_CONFIGURATION
           /\ setup.request = USB_STANDARD_REQUEST_GET_CONFIGURATION
           /\ setup.length = 1
           /\ usb_standard_request(setup))
          => /\ stdReply'.status = USB_REQUEST_STATUS_OK
             /\ stdReply'.block = <<0>>]_vars

(***************************************************************************)
(* Properties of the pools.                                                *)
(***************************************************************************)
\* The freelist is a chain that holds each of the n pool entries exactly
\* once and ends in a terminator.
FreelistFull(head, cells, n) ==
    LET c == Chain(head, cells, n + 1) IN
    /\ Len(c) = n
    /\ Range(c) = 1..n
    /\ cells[c[n]].term

\* The freelist and the objects the caller holds share out the n pool
\* entries: each entry is held or is on the freelist exactly once.
PoolSharedOut(head, cells, n, held) ==
    LET c == Chain(head, cells, n + 1) IN
    /\ Len(c) = Cardinality(Range(c))
    /\ Range(c) \cap held = {}
    /\ Range(c) \cup held = 1..n

\* What the next allocation from the freelist does: it fails when all n
\* entries are held, and returns an entry the caller does not hold otherwise.
NextAllocationIsSound(head, cells, n, held) ==
    LET a == usb_host_allocate_from_freelist(head, cells) IN
    IF held = 1..n
    THEN a.allocated = NULL /\ a.head = head /\ a.cells = cells
    ELSE a.allocated \in (1..n) \ held

\* C11: when usb_host_initialize_storage_pools has returned, whatever the
\* two pool sizes, each freelist holds every entry of its pool exactly once
\* and ends in a terminator, and no store fell outside a pool array.
C11_FreelistsFullAfterInitialisation ==
    (PoolDone /\ heldQh = {} /\ heldT = {}) =>
        /\ poolOutside = {}
        /\ FreelistFull(queue_head_freelist, qhHoriz, poolNq)
        /\ FreelistFull(transfer_freelist, tHoriz, poolNt)

\* The round trip of C12 on one pool, apart from how a failed allocation ends.
PoolRoundTrip(head, cells, n, held) ==
    /\ PoolSharedOut(head, cells, n, held)
    /\ held = {} => FreelistFull(head, cells, n)
    /\ NextAllocationIsSound(head, cells, n, held)

\* C12: in a pool that started full, after N allocations and N frees in any
\* order every entry is available again, each of the next N allocations
\* returns an entry the caller does not hold, and the allocation after them
\* fails: it returns NULL and leaves the pool as it was.
C12_PoolRoundTrip ==
    (PoolDone /\ poolOutside = {}) =>
        /\ PoolRoundTrip(queue_head_freelist, qhHoriz, poolNq, heldQh)
        /\ poolNq = poolNt =>
              /\ ~fault
              /\ PoolRoundTrip(transfer_freelist, tHoriz, poolNt, heldT)

(***************************************************************************)
(* Properties of the asynchronous ring.                                    *)
(***************************************************************************)
\* The walk along the horizontal links from queue head q: the queue heads
\* met before the sentinel, and whether the walk came back to the sentinel
\* over links whose terminate bit is clear.
RECURSIVE RingWalkFrom(_, _)
RingWalkFrom(q, fuel) ==
    LET l == HorizOf(q, qhHoriz, asyncHoriz) IN
    IF fuel = 0 \/ l.term \/ l.ptr = NULL
    THEN [seq |-> <<>>, closed |-> FALSE]
    ELSE IF l.ptr = SENTINEL THEN [seq |-> <<>>, closed |-> TRUE]
    ELSE LET rest == RingWalkFrom(l.ptr, fuel - 1) IN
         [seq |-> <<l.ptr>> \o rest.seq, closed |-> rest.closed]

RingWalk == RingWalkFrom(SENTINEL, Fuel)

\* The queue heads that usb_host_set_up_asynchronous_endpoint_queue has
\* initialised.
SetUpQueueHeads == {q \in QHs : qhEndpoint[q] # ZERO_ENDPOINT}

\* C13: from the ring that holds the sentinel alone, after any sequence of
\* set-up calls the walk from the sentinel comes back to the sentinel,
\* meets no terminate bit, and visits every set-up queue head exactly once;
\* a step leaves the ring as it was or splices one queue head that was not
\* in it right after the sentinel.
C13_RingClosedAndSplicedOnce ==
    /\ [](/\ RingWalk.closed
          /\ Len(RingWalk.seq) = Cardinality(Range(RingWalk.seq))
          /\ Range(RingWalk.seq) = SetUpQueueHeads)
    /\ [][\/ RingWalk.seq' = RingWalk.seq
          \/ /\ RingWalk.seq' # <<>>
             /\ Tail(RingWalk.seq') = RingWalk.seq
             /\ Head(RingWalk.seq') \notin Range(RingWalk.seq)]_vars

\* Every queue head of the pool is in the ring, and the ring holds queue
\* heads that were set up with different characteristics.
C13_Witness ==
    /\ Range(RingWalk.seq) = QHs
    /\ \E q1, q2 \in QHs : qhEndpoint[q1] # qhEndpoint[q2]

(***************************************************************************)
(* Properties of the TD chains.                                            *)
(***************************************************************************)
\* The transfers scheduled on queue head q that have not been reaped.
LiveTds(q) == {t \in Transfers : tQh[t] = q /\ cbCount[t] = 0}

\* The chain behind the overlay's next-dTD pointer ends in a terminator.
ChainTerminates(q) ==
    \/ qhOverlayNext[q] = TD_TERMINATE
    \/ TailOf(qhOverlayNext[q], tdNext, Fuel) # NULL

\* C14: every TD of a queue head that has not been reaped either is active
\* and is in the overlay or behind the overlay's next-dTD pointer, on a chain
\* that ends in a terminator, or is no longer active and is on the pending
\* list.
C14_LiveTdActiveInChainOrPending ==
    \A q \in QHs : \A t \in LiveTds(q) :
        \/ tdActive[t] /\ t \in TdChain(q) /\ ChainTerminates(q)
        \/ ~tdActive[t] /\ OnPendingList(t)

(***************************************************************************)
(* Properties of the byte counters.                                        *)
(***************************************************************************)
\* The byte counter of a scheduled TD the controller has not finished is the
\* length the caller asked for.
ByteCounterIsLength(t) ==
    tdActive[t] => tdTotalBytes[t] = tMaximumLength[t]

\* The callback of a reaped transfer received the bytes the controller moved
\* and the status bits the controller wrote.
CallbackReceivedMoved(t) ==
    cbCount[t] >= 1 =>
        cbArgs[t] = [bytes_transferred |-> hwMoved[t],
                     halted |-> tdHalted[t],
                     transaction_error |-> tdTransactionError[t]]

\* C15: for every maximum_length passed to
\* usb_host_transfer_schedule the byte counter of the TD starts at
\* maximum_length, and when the controller completes the TD after moving k
\* bytes the completion callback receives bytes_transferred = k together
\* with the halted and transaction-error flags of the TD.
C15_ByteCounterAndCallbackArguments ==
    \A t \in Transfers : ByteCounterIsLength(t) /\ CallbackReceivedMoved(t)

\* The same holds of every maximum_length that fits the TOTAL_BYTES_BITS bits
\* of the byte counter.
ByteCounterSoundWithinField ==
    \A t \in Transfers :
        tMaximumLength[t] < 2 ^ TOTAL_BYTES_BITS =>
            ByteCounterIsLength(t) /\ CallbackReceivedMoved(t)

(***************************************************************************)
(* Properties of the interrupt status register.                            *)
(***************************************************************************)
\* C16: usb_get_status reads USBSTS once, masks it with USBINTR and writes
\* back exactly what it returns: a bit the controller raised between the read
\* and the write-back stays set and the next call reads it, and a bit that is
\* set but not enabled is neither returned nor cleared.
C16_GetStatusClearsWhatItReturns ==
    /\ [](gsRaised \subseteq usbsts /\ gsReturned \subseteq usbintr)
    /\ [][/\ GetStatusWriteBack =>
               /\ gsReturned' = usb_get_status_read(usbsts \ gsRaised, usbintr)
               /\ usbsts' = usbsts \ gsReturned'
               /\ (usbsts \ usbintr) \subseteq usbsts'
          /\ GetStatusRead => (gsRaised \cap usbintr) \subseteq gsStatus']_vars

\* The controller raised an enabled bit between the read and the write-back
\* of a call that returned another bit, while a bit that is not enabled was
\* set: the raised bit and the bit that is not enabled are still set.
C16_Witness ==
    /\ gsPc = "idle"
    /\ gsReturned # {}
    /\ gsRaised \cap usbintr # {}
    /\ usbsts \ usbintr # {}

(***************************************************************************)
(* Properties of usb_device_isr.                                           *)
(***************************************************************************)
\* C17: within one invocation of usb_device_isr in which the USB interrupt
\* is set, every setup_complete callback is invoked before any
\* transfer_complete callback: when the invocation finds both a SETUP packet
\* and a completed transfer, the setup handler runs first.
C17_SetupCallbacksBeforeTransferCallbacks ==
    /\ \A i, j \in 1..Len(dLog) :
           (dLog[i].ev = "transfer_complete" /\ dLog[j].ev = "setup_complete") => j < i
    /\ (dLog # <<>> => USB_INTERRUPT \in gsReturned)

\* An invocation has ended in which endpoint 0 had both a SETUP packet and a
\* completed transfer, and both callbacks have run.
C17_Witness ==
    /\ dPc = "idle"
    /\ \E i, j \in 1..Len(dLog) :
           /\ dLog[i] = Event("setup_complete", usb_endpoint_address(FALSE, 0))
           /\ dLog[j] = Event("transfer_complete", usb_endpoint_address(FALSE, 0))

(***************************************************************************)
(* Properties of bus reset and of the endpoint control registers.          *)
(***************************************************************************)
\* The address register holds 0 and no configuration is active.
AddressedNowhere ==
    /\ deviceaddr = [usbadr |-> 0, usbadra |-> FALSE]
    /\ active_configuration = NULL_CONFIGURATION

EnabledEndpoints == {i \in EndpointNumbers : endptctrl[i] \cap {"RXE", "TXE"} # {}}

StalledEndpoints == {i \in EndpointNumbers : {"RXS", "TXS"} \subseteq endptctrl[i]}

\* C18 (as stated): after a bus reset, from any prior device state, the
\* device address register holds 0, the active configuration is none, and no
\* endpoint control register has a receive-enable or transmit-enable bit set.
C18_BusResetClearsEveryEnable ==
    lastOp.op = "bus_reset" => AddressedNowhere /\ EnabledEndpoints = {}

\* C18 (amended): after a bus reset, from any prior device state, the device
\* address register holds 0, the active configuration is none, and no
\* endpoint control register but that of endpoint 0, which is always
\* enabled, has a receive-enable or transmit-enable bit set.
C18_BusResetClearsEveryEnableBut0 ==
    lastOp.op = "bus_reset" => AddressedNowhere /\ EnabledEndpoints \subseteq {0}

\* A bus reset found the device addressed and configured with another
\* endpoint than 0 enabled.
C18_Witness ==
    /\ lastOp.op = "bus_reset"
    /\ lastOp.before[1].usbadr # 0
    /\ lastOp.before[2] # NULL_CONFIGURATION
    /\ \E i \in EndpointNumbers \ {0} : lastOp.before[3][i] \cap {"RXE", "TXE"} # {}

\* C19: once usb_endpoint_stall has set the stall bits of an endpoint they
\* stay set across every later driver operation until a bus reset, and after
\* the bus reset the endpoint is no longer stalled.
C19_StalledUntilBusReset ==
    /\ [][lastOp'.op # "bus_reset" => StalledEndpoints \subseteq StalledEndpoints']_vars
    /\ [](lastOp.op = "bus_reset" => StalledEndpoints = {})

\* The stall bits stay set across every operation, bus reset among them.
StalledForGood == [][StalledEndpoints \subseteq StalledEndpoints']_vars

(***************************************************************************)
(* Properties of the configuration requests.                               *)
(***************************************************************************)
\* The last request was SET_CONFIGURATION(v) for a v of the current pool.
SetConfigurationOfPool ==
    lastOp.op = "set_configuration" /\ lastOp.before[2]

\* The last request was a GET_CONFIGURATION with wLength = 1 right after a
\* SET_CONFIGURATION(v) for a v of the current pool.
GetAfterSetConfigurationOfPool ==
    /\ lastOp.op = "get_configuration"
    /\ Len(lastOp.before) = 4
    /\ lastOp.before[1] = 1
    /\ lastOp.before[3]

\* SET_CONFIGURATION(v) returned OK and made the configuration of value v
\* active; the GET_CONFIGURATION after it replied with the one byte v.
SetThenGetConfiguration ==
    /\ SetConfigurationOfPool =>
           /\ stdReply = Reply(USB_REQUEST_STATUS_OK, <<>>, "in")
           /\ active_configuration # NULL_CONFIGURATION
           /\ ConfigurationValue(active_configuration) = lastOp.before[1]
    /\ GetAfterSetConfigurationOfPool =>
           stdReply = Reply(USB_REQUEST_STATUS_OK, <<lastOp.before[2]>>, "out")

\* C20 (as stated): for every configuration value v of the current-speed
\* configuration pool, SET_CONFIGURATION(v) returns OK, installs that
\* configuration as active and fires the configuration-changed callback, and
\* a following GET_CONFIGURATION with wLength = 1 replies with the byte v.
C20_SetConfigurationFiresCallback ==
    /\ SetThenGetConfiguration
    /\ SetConfigurationOfPool => lastOp.before[3]

\* C20 (amended): the same, the configuration-changed callback being fired
\* if one is registered, and not otherwise.
C20_SetConfigurationFiresCallbackIfRegistered ==
    /\ SetThenGetConfiguration
    /\ SetConfigurationOfPool => (lastOp.before[3] <=> configuration_changed_callback)

\* A GET_CONFIGURATION with wLength = 1 came right after a
\* SET_CONFIGURATION of the last value of the pool that fired the callback.
C20_Witness ==
    /\ GetAfterSetConfigurationOfPool
    /\ lastOp.before[2] = NumConfigurations
    /\ lastOp.before[4]
    /\ stdReply.block = <<NumConfigurations>>

(***************************************************************************)
(* Properties of the standard requests.                                    *)
(***************************************************************************)
\* The request of this step was SET_CONFIGURATION(v) for a v that is neither
\* 0 nor the value of a configuration of the pool of the current speed.
InvalidSetConfiguration(op) ==
    /\ op.op = "set_configuration"
    /\ op.before[1] # 0
    /\ ~op.before[2]

\* C21: SET_CONFIGURATION with a value that is neither 0 nor the value of a
\* configuration of the current-speed pool returns STALL (which schedules no
\* status ACK), leaves the active configuration as it was and does not
\* invoke the configuration-changed callback.
C21_InvalidSetConfigurationStalls ==
    [][InvalidSetConfiguration(lastOp') =>
           /\ stdReply' = Stalled
           /\ active_configuration' = active_configuration
           /\ ~lastOp'.before[3]]_vars

\* With a callback registered and a configuration active, a
\* SET_CONFIGURATION of one past the last value of the pool has stalled.
C21_Witness ==
    /\ InvalidSetConfiguration(lastOp)
    /\ lastOp.before[1] = NumConfigurations + 1
    /\ configuration_changed_callback
    /\ active_configuration # NULL_CONFIGURATION
    /\ stdReply = Stalled

(***************************************************************************)
(* Properties of GET_DESCRIPTOR.                                           *)
(***************************************************************************)
\* The last step handled a GET_DESCRIPTOR request for the given type.
GetDescriptorOf(type) ==
    /\ lastOp.op = "request"
    /\ lastOp.before[1].request = USB_STANDARD_REQUEST_GET_DESCRIPTOR
    /\ lastOp.before[1].value_h = type

RequestedIndex == lastOp.before[1].value_l

RequestedLength == lastOp.before[1].length

\* The position of the sentinel of the string list: the first entry with a
\* NULL descriptor.
SentinelPosition ==
    CHOOSE i \in 1..Len(string_descriptors) :
        /\ string_descriptors[i].descriptor = NULL_DESCRIPTOR
        /\ \A j \in 1..(i - 1) : string_descriptors[j].descriptor # NULL_DESCRIPTOR

\* The positions before the sentinel of the entries with index k.
StringsOfIndex(k) ==
    {i \in 1..(SentinelPosition - 1) : string_descriptors[i].index = k}

\* The positions in the pool of the current speed of the configurations
\* with value v.
ConfigurationsOfValue(v) ==
    {i \in 1..(Len(ConfigurationPool(usb_current_device_speed)) - 1) :
        ConfigurationPool(usb_current_device_speed)[i] = v}

\* The descriptor the last request asked for, resolved as the request is
\* defined: NULL_DESCRIPTOR when there is none.
RequestedDescriptor ==
    LET type == lastOp.before[1].value_h IN
    CASE type = USB_DESCRIPTOR_TYPE_DEVICE -> device_descriptor
      [] type = USB_DESCRIPTOR_TYPE_DEVICE_QUALIFIER -> device_qualifier_descriptor
      [] type = USB_DESCRIPTOR_TYPE_STRING ->
             IF StringsOfIndex(RequestedIndex) = {} THEN NULL_DESCRIPTOR
             ELSE string_descriptors[
                      CHOOSE i \in StringsOfIndex(RequestedIndex) :
                          \A j \in StringsOfIndex(RequestedIndex) : i <= j].descriptor
      [] type = USB_DESCRIPTOR_TYPE_CONFIGURATION ->
             IF ConfigurationsOfValue(RequestedIndex + 1) = {} THEN NULL_DESCRIPTOR
             ELSE ConfigurationDescriptor(
                      [pool |-> usb_current_device_speed,
                       index |-> CHOOSE i \in ConfigurationsOfValue(RequestedIndex + 1) :
                                     TRUE])
      [] type = USB_DESCRIPTOR_TYPE_OTHER_SPEED_CONFIGURATION ->
             ConfigurationDescriptor(
                 usb_find_other_speed_configuration_descriptor(RequestedIndex))
      [] OTHER -> NULL_DESCRIPTOR

\* L: the total_length of a configuration descriptor, the length field of
\* any other.
FullLength(descriptor) ==
    IF descriptor[2] = USB_DESCRIPTOR_TYPE_CONFIGURATION
    THEN descriptor[3] + 256 * descriptor[4]
    ELSE descriptor[1]

\* The reply that sends the first min(L, wLength) bytes of the descriptor on
\* IN and acknowledges on OUT.
SentUpTo(descriptor, wLength) ==
    LET L == FullLength(descriptor)
    IN Reply(USB_REQUEST_STATUS_OK,
             SubSeq(descriptor, 1, IF wLength < L THEN wLength ELSE L), "out")

\* C22: for every resolved descriptor and every wLength, GET_DESCRIPTOR
\* schedules an IN block of exactly min(L, wLength) bytes of the descriptor
\* and then an OUT status ACK, L being the total_length of a configuration
\* descriptor and the length field of any other.
C22_SendsMinOfLengthAndWLength ==
    (/\ lastOp.op = "request"
     /\ lastOp.before[1].request = USB_STANDARD_REQUEST_GET_DESCRIPTOR
     /\ RequestedDescriptor # NULL_DESCRIPTOR)
    => /\ stdReply = SentUpTo(RequestedDescriptor, RequestedLength)
       /\ Len(stdReply.block) <= RequestedLength
       /\ Len(stdReply.block) <= FullLength(RequestedDescriptor)
       /\ Len(stdReply.block) \in {RequestedLength, FullLength(RequestedDescriptor)}

\* A configuration descriptor asked for with wLength = 9 went out as the
\* 9 bytes of the descriptor, without its subordinate descriptors.
C22_Witness ==
    /\ GetDescriptorOf(USB_DESCRIPTOR_TYPE_CONFIGURATION)
    /\ RequestedLength = CONFIGURATION_DESCRIPTOR_LENGTH
    /\ stdReply.status = USB_REQUEST_STATUS_OK
    /\ Len(stdReply.block) = CONFIGURATION_DESCRIPTOR_LENGTH
    /\ FullLength(RequestedDescriptor) > CONFIGURATION_DESCRIPTOR_LENGTH

\* The last request was a GET_DESCRIPTOR that resolves to no descriptor: of
\* an unknown type, of the interface or endpoint type, of a string index
\* that is not in the list, of a configuration index with no matching
\* configuration, or of the device qualifier on a device without one.
UnresolvedGetDescriptor ==
    /\ lastOp.op = "request"
    /\ lastOp.before[1].request = USB_STANDARD_REQUEST_GET_DESCRIPTOR
    /\ LET type == lastOp.before[1].value_h IN
       \/ type \notin {USB_DESCRIPTOR_TYPE_DEVICE, USB_DESCRIPTOR_TYPE_CONFIGURATION,
                       USB_DESCRIPTOR_TYPE_STRING, USB_DESCRIPTOR_TYPE_INTERFACE,
                       USB_DESCRIPTOR_TYPE_ENDPOINT,
                       USB_DESCRIPTOR_TYPE_DEVICE_QUALIFIER,
                       USB_DESCRIPTOR_TYPE_OTHER_SPEED_CONFIGURATION}
       \/ type \in {USB_DESCRIPTOR_TYPE_INTERFACE, USB_DESCRIPTOR_TYPE_ENDPOINT}
       \/ type = USB_DESCRIPTOR_TYPE_STRING /\ StringsOfIndex(RequestedIndex) = {}
       \/ /\ type = USB_DESCRIPTOR_TYPE_CONFIGURATION
          /\ ConfigurationsOfValue(RequestedIndex + 1) = {}
       \/ /\ type = USB_DESCRIPTOR_TYPE_DEVICE_QUALIFIER
          /\ device_qualifier_descriptor = NULL_DESCRIPTOR

\* C23: a GET_DESCRIPTOR request that does not resolve to a descriptor
\* returns STALL and schedules neither an IN block nor an OUT ACK.
C23_UnresolvedDescriptorStalls ==
    UnresolvedGetDescriptor =>
        /\ stdReply.status = USB_REQUEST_STATUS_STALL
        /\ stdReply.block = <<>>
        /\ stdReply.ack = "none"

\* The device qualifier was asked of a device that has none, with room for
\* all of it, and the request stalled.
C23_Witness ==
    /\ GetDescriptorOf(USB_DESCRIPTOR_TYPE_DEVICE_QUALIFIER)
    /\ device_qualifier_descriptor = NULL_DESCRIPTOR
    /\ RequestedLength = 255
    /\ stdReply = Stalled

\* C24: GET_DESCRIPTOR(CONFIGURATION) with wire index i looks up the
\* configuration whose value is i + 1 in the pool of the current speed: when
\* the pool has one, the bytes sent are those of a configuration descriptor
\* of that pool with configuration value i + 1.
C24_ConfigurationIndexPlusOne ==
    (/\ GetDescriptorOf(USB_DESCRIPTOR_TYPE_CONFIGURATION)
     /\ ConfigurationsOfValue(RequestedIndex + 1) # {})
    => \E i \in ConfigurationsOfValue(RequestedIndex + 1) :
           LET descriptor == ConfigurationDescriptor(
                                 [pool |-> usb_current_device_speed, index |-> i])
           IN /\ descriptor[6] = RequestedIndex + 1
              /\ stdReply = SentUpTo(descriptor, RequestedLength)

\* Index 0 was asked for at high speed with wLength = 255: all of the
\* high-speed configuration with value 1 went out.
C24_Witness ==
    /\ GetDescriptorOf(USB_DESCRIPTOR_TYPE_CONFIGURATION)
    /\ RequestedIndex = 0
    /\ RequestedLength = 255
    /\ portsc_speed = USB_SPEED_HIGH
    /\ stdReply.status = USB_REQUEST_STATUS_OK
    /\ Len(stdReply.block) > CONFIGURATION_DESCRIPTOR_LENGTH
    /\ stdReply.block[6] = 1

\* C28: GET_DESCRIPTOR(STRING, k) sends the descriptor of the first entry
\* before the sentinel of the string list whose index is k, and returns
\* STALL when no entry before the sentinel has index k.
C28_FirstStringOfIndex ==
    GetDescriptorOf(USB_DESCRIPTOR_TYPE_STRING) =>
        IF StringsOfIndex(RequestedIndex) = {}
        THEN stdReply = Stalled
        ELSE \E i \in StringsOfIndex(RequestedIndex) :
                 /\ \A j \in StringsOfIndex(RequestedIndex) : i <= j
                 /\ stdReply = SentUpTo(string_descriptors[i].descriptor,
                                        RequestedLength)

\* On the list that has index 2 twice, string 2 was asked for with room for
\* all of it: the first of the two went out, from the second position.
C28_Witness ==
    /\ GetDescriptorOf(USB_DESCRIPTOR_TYPE_STRING)
    /\ RequestedIndex = 2
    /\ RequestedLength = 255
    /\ Cardinality(StringsOfIndex(2)) = 2
    /\ stdReply.status = USB_REQUEST_STATUS_OK
    /\ stdReply.block = string_descriptors[2].descriptor

(***************************************************************************)
(* Properties of the requests without a handler, GET_STATUS and            *)
(* SET_ADDRESS.                                                            *)
(***************************************************************************)
\* The last step handled a request with the given code.
RequestOf(request) ==
    /\ lastOp.op = "request"
    /\ lastOp.before[1].request = request

\* C25: usb_standard_request returns STALL for every bRequest outside
\* {0, 5, 6, 8, 9}, CLEAR_FEATURE and SET_FEATURE included; it schedules no
\* transfer and changes neither the device address nor the active
\* configuration.
C25_UnimplementedRequestsStall ==
    (/\ lastOp.op = "request"
     /\ lastOp.before[1].request \notin {0, 5, 6, 8, 9})
    => /\ stdReply.status = USB_REQUEST_STATUS_STALL
       /\ stdReply.block = <<>>
       /\ stdReply.ack = "none"
       /\ active_configuration = lastOp.before[2]
       /\ deviceaddr = lastOp.before[3]
       /\ hwAddress = lastOp.before[4]

\* A configured device with an address has stalled a SET_FEATURE.
C25_Witness ==
    /\ RequestOf(USB_STANDARD_REQUEST_SET_FEATURE)
    /\ active_configuration # NULL_CONFIGURATION
    /\ hwAddress # 0
    /\ stdReply = Stalled

\* C26 (as stated): every GET_STATUS request is answered with a 2-byte IN
\* block holding 0x0000 and an OUT status ACK, and the handler returns OK.
C26_EveryGetStatusAnswered ==
    RequestOf(USB_STANDARD_REQUEST_GET_STATUS) =>
        stdReply = Reply(USB_REQUEST_STATUS_OK, <<0, 0>>, "out")

\* C26 (amended): every GET_STATUS request with wLength = 2 is answered
\* with a 2-byte IN block holding 0x0000 and an OUT status ACK, and the
\* handler returns OK.
C26_GetStatusOfLength2Answered ==
    (RequestOf(USB_STANDARD_REQUEST_GET_STATUS) /\ lastOp.before[1].length = 2)
    => stdReply = Reply(USB_REQUEST_STATUS_OK, <<0, 0>>, "out")

\* A GET_STATUS with wLength = 2 has had its two bytes and its ACK.
C26_Witness ==
    /\ RequestOf(USB_STANDARD_REQUEST_GET_STATUS)
    /\ lastOp.before[1].length = 2
    /\ stdReply = Reply(USB_REQUEST_STATUS_OK, <<0, 0>>, "out")

\* wValue of the SET_ADDRESS the last step was about.
RequestedAddress == lastOp.before[1].value_l + 256 * lastOp.before[1].value_h

\* The SET_ADDRESS request the last step handled wrote the low byte of wValue
\* with USBADRA set, scheduled the IN status ACK and left the address the
\* device answers on as it was; the status stage the last step completed
\* made wValue that address.
DeferredAddress ==
    /\ RequestOf(USB_STANDARD_REQUEST_SET_ADDRESS) =>
           /\ deviceaddr = [usbadr |-> lastOp.before[1].value_l, usbadra |-> TRUE]
           /\ stdReply = Reply(USB_REQUEST_STATUS_OK, <<>>, "in")
           /\ hwAddress = lastOp.before[4]
    /\ lastOp.op = "status_stage" =>
           /\ lastOp.before[1].request = USB_STANDARD_REQUEST_SET_ADDRESS
           /\ hwAddress = RequestedAddress
           /\ ~deviceaddr.usbadra

\* C27 (as stated): SET_ADDRESS writes the low byte of wValue to the
\* device-address register with USBADRA set and schedules one zero-length IN
\* status ACK; the address the device answers on stays the old one until
\* the IN status stage has completed and equals wValue afterwards.
C27_AddressIsWValueAfterStatusStage == DeferredAddress

\* C27 (amended): the same, for every wValue from 0 to 127.
C27_AddressUpTo127AfterStatusStage ==
    (lastOp.op \in {"request", "status_stage"} /\ RequestedAddress <= 127)
    => DeferredAddress

\* The device answered on address 5, was sent SET_ADDRESS(42) and has
\* completed the status stage: it answers on 42.
C27_Witness ==
    /\ lastOp.op = "status_stage"
    /\ RequestedAddress = 42
    /\ lastOp.before[4] = 5
    /\ hwAddress = 42

(***************************************************************************)
(* Properties of the lookup of a configuration descriptor.                 *)
(***************************************************************************)
\* The pool the last call searched: that of the current speed, or the other.
SearchedSpeed ==
    IF lastOp.op = "find" THEN usb_current_device_speed ELSE usb_other_device_speed

\* The positions before the NULL terminator of the searched pool of the
\* descriptors with value v.
HoldersOfValue(v) ==
    {i \in 1..(Len(ConfigurationPool(SearchedSpeed)) - 1) :
        ConfigurationPool(SearchedSpeed)[i] = v}

\* C29: usb_find_configuration_descriptor(v) returns a descriptor of value v
\* of the pool of the current speed and
\* usb_find_other_speed_configuration_descriptor(v) one of the other pool;
\* each returns none exactly when v = 0 or no descriptor of that
\* null-terminated pool has value v, and neither reads through or past the
\* NULL terminator of the pool.
C29_FindsInNullTerminatedPool ==
    lastOp.op \in {"find", "find_other"} =>
        LET v == lastOp.before[1]
            config == lastOp.before[2]
        IN /\ config # WILD_CONFIGURATION
           /\ config = NULL_CONFIGURATION <=> (v = 0 \/ HoldersOfValue(v) = {})
           /\ config # NULL_CONFIGURATION =>
                  /\ config.pool = SearchedSpeed
                  /\ config.index \in HoldersOfValue(v)

(***************************************************************************)
(* Properties of the decoding of bmRequestType.                            *)
(***************************************************************************)
\* C30: for every value of byte 0 of a setup packet the decoded sub-fields
\* are direction = bit 7, type = bits 6:5 and recipient = bits 4:0 of that
\* byte.
C30_RequestTypeSubFields ==
    lastOp.op = "copy_setup" =>
        LET bmRequestType == lastOp.before[1] IN
        /\ lastOp.before[2] = bmRequestType \div 128
        /\ lastOp.before[3] = (bmRequestType \div 32) % 4
        /\ lastOp.before[4] = bmRequestType % 32

(***************************************************************************)
(* usb_endpoint_descriptor: the walk over the active configuration and its *)
(* subordinate descriptors.  A descriptor is its length byte, its type     *)
(* byte and data[0]; the configuration descriptor comes first and data[0]  *)
(* of it is the low byte of total_length.                                  *)
(***************************************************************************)
MaxSubordinates == 2

\* endpoint->address of the endpoint looked for, and another address.
WALK_ENDPOINT_ADDRESS == 129
OTHER_ENDPOINT_ADDRESS == 1

ENDPOINT_DESCRIPTOR_LENGTH == 7

Subordinates ==
    [length : {0, ENDPOINT_DESCRIPTOR_LENGTH},
     type   : {USB_DESCRIPTOR_TYPE_INTERFACE, USB_DESCRIPTOR_TYPE_ENDPOINT},
     data0  : {WALK_ENDPOINT_ADDRESS, OTHER_ENDPOINT_ADDRESS}]

RECURSIVE LengthOfAll(_)
LengthOfAll(descriptors) ==
    IF descriptors = <<>> THEN 0
    ELSE Head(descriptors).length + LengthOfAll(Tail(descriptors))

ConfigurationHeader(total_length) ==
    [length |-> CONFIGURATION_DESCRIPTOR_LENGTH,
     type   |-> USB_DESCRIPTOR_TYPE_CONFIGURATION,
     data0  |-> total_length % 256]

\* The configurations an endpoint's device can be configured with: the
\* bytes up to total_length are the device's own.
WalkConfigurations ==
    UNION {{<<ConfigurationHeader(total)>> \o subs :
               total \in 0..(CONFIGURATION_DESCRIPTOR_LENGTH + LengthOfAll(subs))} :
           subs \in UNION {[1..n -> Subordinates] : n \in 0..MaxSubordinates}}

\* configuration->total_length: bytes 2 and 3 of the configuration
\* descriptor, whose low byte the header carries.
WalkTotalLength(configuration) == configuration[1].data0

\* The descriptor the loop reads at an offset: the first one that starts
\* there.
RECURSIVE DescriptorFrom(_, _, _)
DescriptorFrom(descriptors, start, offset) ==
    IF start = offset THEN Head(descriptors)
    ELSE DescriptorFrom(Tail(descriptors), start + Head(descriptors).length,
                        offset)

DescriptorAt(configuration, offset) == DescriptorFrom(configuration, 0, offset)

\* usb_endpoint_descriptor(endpoint) up to its loop; an empty configuration
\* stands for active_configuration = NULL.
usb_endpoint_descriptor_enter(configuration) ==
    /\ epdPc = "idle"
    /\ epdConfiguration' = configuration
    /\ epdExamined' = {}
    /\ IF configuration = <<>>
       THEN /\ epdPc' = "returned"
            /\ epdReturn' = NULL
            /\ epdAddress' = 0
            /\ epdRemaining' = 0
       ELSE /\ epdPc' = "walk"
            /\ epdReturn' = NULL
            /\ epdAddress' = 0
            /\ epdRemaining' = WalkTotalLength(configuration)
    /\ UNCHANGED walkFrame

\* One test of the loop condition of usb_endpoint_descriptor, and the body
\* or the return after the loop.
usb_endpoint_descriptor_step ==
    /\ epdPc = "walk"
    /\ IF epdRemaining > 0
       THEN LET descriptor == DescriptorAt(epdConfiguration, epdAddress) IN
            /\ epdExamined' = epdExamined \cup {epdAddress}
            /\ IF /\ descriptor.type = USB_DESCRIPTOR_TYPE_ENDPOINT
                  /\ descriptor.data0 = WALK_ENDPOINT_ADDRESS
               THEN /\ epdPc' = "returned"
                    /\ epdReturn' = epdAddress
                    /\ UNCHANGED <<epdRemaining, epdAddress>>
               ELSE /\ epdRemaining' = epdRemaining - descriptor.length
                    /\ epdAddress' = epdAddress + descriptor.length
                    /\ UNCHANGED <<epdPc, epdReturn>>
       ELSE /\ epdPc' = "returned"
            /\ epdReturn' = NULL
            /\ UNCHANGED <<epdRemaining, epdAddress, epdExamined>>
    /\ UNCHANGED <<epdConfiguration, walkFrame>>

NextWalk ==
    \/ \E configuration \in WalkConfigurations \cup {<<>>} :
           usb_endpoint_descriptor_enter(configuration)
    \/ usb_endpoint_descriptor_step

\* The processor keeps executing the function it has entered.
SpecWalk == Init /\ [][NextWalk]_vars /\ WF_vars(usb_endpoint_descriptor_step)

(***************************************************************************)
(* usb_host_transfer_schedule statement by statement, with the reaper      *)
(* interrupt taken between its statements.  The interrupt is masked from   *)
(* cm_disable_interrupts to cm_enable_interrupts only; the allocation runs *)
(* before.                                                                 *)
(***************************************************************************)
\* The number of usb_host_transfer_schedule calls that are followed
\* statement by statement.
MaxPreemptedSchedules == 3

\* usb_host_allocate_from_freelist up to "allocated = freelist_head->ptr".
ScheduleEnter(qh) ==
    /\ schPc = "idle"
    /\ InRing(qh)
    /\ nSched < MaxPreemptedSchedules
    /\ nSched' = nSched + 1
    /\ IF transfer_freelist.term
       THEN /\ \E outcome \in {"dropped", "fault"} : ScheduleExhausted(outcome)
            /\ UNCHANGED schVars
       ELSE /\ schPc' = "advance"
            /\ schQh' = qh
            /\ schAllocated' = transfer_freelist.ptr
            /\ UNCHANGED <<transfer_freelist, tHoriz, pending_transfers, tdActive,
                           qhOverlayNext, tdNext, hung, cbCount, schedSeq, tQh,
                           lastRet, fault>>
    /\ UNCHANGED <<queue_head_freelist, qhHoriz, qhEndpoint, asyncHoriz, hwCur,
                   cbLog>>
    /\ UNCHANGED scheduleFrame

\* "freelist_head->ptr = allocated->ptr; allocated->link = 0;
\* allocated->terminate = 1", the rest of usb_host_allocate_from_freelist.
ScheduleAdvance ==
    /\ schPc = "advance"
    /\ transfer_freelist' = tHoriz[schAllocated]
    /\ tHoriz' = [tHoriz EXCEPT ![schAllocated] = TERMINATING_LINK]
    /\ schPc' = "fill"
    /\ UNCHANGED <<schQh, schAllocated>>
    /\ UNCHANGED <<queue_head_freelist, qhHoriz, qhOverlayNext, qhEndpoint,
                   asyncHoriz, pending_transfers, tdNext, tdActive, hwCur, cbCount,
                   schedSeq, tQh, nSched, cbLog, lastRet, fault, hung>>
    /\ UNCHANGED scheduleFrame

\* The rest of usb_host_transfer_schedule: the descriptor is filled in and,
\* with interrupts disabled, put on the pending list and linked to the
\* queue head.
ScheduleLink ==
    /\ schPc = "fill"
    /\ ScheduleAllocated(schQh, [allocated |-> schAllocated,
                                 head      |-> transfer_freelist,
                                 cells     |-> tHoriz])
    /\ schPc' = "idle"
    /\ UNCHANGED <<schQh, schAllocated>>
    /\ UNCHANGED <<queue_head_freelist, qhHoriz, qhEndpoint, asyncHoriz, hwCur,
                   cbLog, nSched>>
    /\ UNCHANGED scheduleFrame

NextPreempt ==
    \/ Running /\ schPc = "idle" /\ SetUpEndpoint(NULL, USB_SPEED_HIGH, FALSE)
               /\ UNCHANGED <<devVars, extVars>>
    \/ Running /\ (\E q \in QHs : ScheduleEnter(q))
    \/ Running /\ ScheduleAdvance
    \/ Running /\ ScheduleLink
    \/ Running /\ (\E q \in QHs : HwFetch(q))
               /\ UNCHANGED <<devVars, extVars>>
    \/ Running /\ (\E q \in QHs : HwRetire(q))
               /\ UNCHANGED <<devVars, extVars>>
    \* the interrupt: between any two of the steps above
    \/ Running /\ usb_host_handle_asynchronous_transfer_complete
               /\ UNCHANGED <<devVars, extVars>>

SpecPreempt == Init /\ [][NextPreempt]_vars

(***************************************************************************)
(* The setup intake with a host that sends a control endpoint a new SETUP  *)
(* at any time: the controller always accepts a SETUP packet and writes it *)
(* over the setup bytes of the queue head, whatever the driver is doing.   *)
(***************************************************************************)
ResentSetupPackets ==
    {<<128, USB_STANDARD_REQUEST_GET_CONFIGURATION, 0, 0, 0, 0, 1, 0>>,
     <<0, USB_STANDARD_REQUEST_SET_CONFIGURATION, 1, 0, 0, 0, 0, 0>>}

\* The controller receives a SETUP packet for control endpoint i, taken or
\* not the one before.
HwSetupWritten(i, src) ==
    /\ nSetups < MaxSetups
    /\ nSetups' = nSetups + 1
    /\ qhSetup' = [qhSetup EXCEPT ![i] = src]
    /\ endptsetupstat' = endptsetupstat \cup {i}
    /\ UNCHANGED <<endptprime, endptflush, endptstat, usbcmd_atdtw, endptctrl, epSetup,
                   epSetupComplete, tdVars, hwVars, isrVars, appVars, nTds>>

NextResend ==
    \/ IsrEnter /\ UNCHANGED <<hostVars, stdVars, extVars>>
    \/ IsrScan /\ UNCHANGED <<hostVars, stdVars, extVars>>
    \/ IsrCopySetup /\ UNCHANGED <<hostVars, stdVars, extVars>>
    \/ usb_clear_endpoint_setup_status_write /\ UNCHANGED <<hostVars, stdVars, extVars>>
    \/ usb_clear_endpoint_setup_status_wait /\ UNCHANGED <<hostVars, stdVars, extVars>>
    \/ usb_endpoint_flush /\ UNCHANGED <<hostVars, stdVars, extVars>>
    \/ usb_wait_for_endpoint_priming_to_finish /\ UNCHANGED <<hostVars, stdVars, extVars>>
    \/ usb_flush_endpoints /\ UNCHANGED <<hostVars, stdVars, extVars>>
    \/ usb_wait_for_endpoint_flushing_to_finish /\ UNCHANGED <<hostVars, stdVars, extVars>>
    \/ IsrSetupComplete /\ UNCHANGED <<hostVars, stdVars, extVars>>
    \/ (\E i \in EndpointNumbers, src \in ResentSetupPackets : HwSetupWritten(i, src))
           /\ UNCHANGED <<hostVars, stdVars, extVars>>
    \/ (\E a \in EndpointAddresses : HwFlushComplete(a))
           /\ UNCHANGED <<hostVars, stdVars, extVars>>

SpecResend == InitSetup /\ [][NextResend]_vars

(***************************************************************************)
(* The two definitions of usb_check_for_setup_events, as functions from    *)
(* the value read from ENDPTSETUPSTAT (the set of its bits that are set)   *)
(* and the endpoints that have a setup_complete callback to the effects    *)
(* performed, in order.                                                    *)
(***************************************************************************)
\* for( uint_fast8_t i=0; i<6; i++ )
SETUP_SCAN_LIMIT == 6

SetupStatusValues == SUBSET (0..(SETUP_SCAN_LIMIT - 1))

\* The body of the loop for endpoint i, clearing the bits of the mask
\* endptsetupstat_bit.
SetupEventEffects(i, endptsetupstat_bit, callbacks) ==
    <<<<"copy_setup", usb_endpoint_address(FALSE, i)>>,
      <<"copy_setup", usb_endpoint_address(TRUE, i)>>,
      <<"clear_setup", endptsetupstat_bit>>,
      <<"flush", usb_endpoint_address(TRUE, i)>>,
      <<"flush", usb_endpoint_address(FALSE, i)>>>>
    \o (IF i \in callbacks
        THEN <<<<"setup_complete", usb_endpoint_address(FALSE, i)>>>>
        ELSE <<>>)

\* The first definition: endptsetupstat_bit is tested before the body
\* assigns it.
RECURSIVE usb_check_for_setup_events_first(_, _, _, _)
usb_check_for_setup_events_first(i, setupstat, endptsetupstat_bit, callbacks) ==
    IF i >= SETUP_SCAN_LIMIT THEN <<>>
    ELSE IF setupstat \cap endptsetupstat_bit # {}
    THEN SetupEventEffects(i, {i}, callbacks)
         \o usb_check_for_setup_events_first(i + 1, setupstat, {i}, callbacks)
    ELSE usb_check_for_setup_events_first(i + 1, setupstat,
                                          endptsetupstat_bit, callbacks)

\* The second definition: endptsetupstat_bit is assigned, then tested.
RECURSIVE usb_check_for_setup_events_second(_, _, _)
usb_check_for_setup_events_second(i, setupstat, callbacks) ==
    IF i >= SETUP_SCAN_LIMIT THEN <<>>
    ELSE IF setupstat \cap {i} # {}
    THEN SetupEventEffects(i, {i}, callbacks)
         \o usb_check_for_setup_events_second(i + 1, setupstat, callbacks)
    ELSE usb_check_for_setup_events_second(i + 1, setupstat, callbacks)

\* Both definitions are run on the same register value; "uint32_t
\* endptsetupstat_bit = 0" starts the first.
CheckForSetupEvents(setupstat, callbacks) ==
    /\ lastOp.op = "none"
    /\ lastOp' = [op |-> "check_for_setup_events",
                  before |-> <<setupstat, callbacks,
                      usb_check_for_setup_events_first(0, setupstat, {},
                                                       callbacks),
                      usb_check_for_setup_events_second(0, setupstat,
                                                        callbacks)>>]
    /\ UNCHANGED <<hostVars, devVars, poolVars, bytesVars, statusVars, irqVars,
                   deviceFields, hwAddress>>

NextVersions ==
    \E setupstat \in SetupStatusValues, callbacks \in SetupStatusValues :
        CheckForSetupEvents(setupstat, callbacks)

SpecVersions == Init /\ [][NextVersions]_vars

(***************************************************************************)
(* usb_device_isr on a board with two controllers: usb0_isr and usb1_isr   *)
(* call it with &usb_peripherals[0] and &usb_peripherals[1].  Of a         *)
(* controller the model keeps whether endpoints are enabled, the address,  *)
(* the active configuration value and the USB-reset bit of USBSTS.         *)
(***************************************************************************)
Controllers == {0, 1}

\* The address a host assigns.
ASSIGNED_ADDRESS == 5

\* The host enumerates the device behind controller k and selects a
\* configuration.
ControllerEnumerated(k, value) ==
    /\ ~controllers[k].usb_reset_received
    /\ controllers' = [controllers EXCEPT ![k] =
           [endpoints_enabled |-> TRUE, usbadr |-> ASSIGNED_ADDRESS,
            active_configuration |-> value, usb_reset_received |-> FALSE]]
    /\ lastOp' = [op |-> "enumerated", before |-> <<k, controllers>>]
    /\ UNCHANGED controllersFrame

\* The host resets the bus of controller k: the controller raises the
\* USB-reset bit of its USBSTS.
HwResetReceived(k) ==
    /\ controllers' = [controllers EXCEPT ![k].usb_reset_received = TRUE]
    /\ lastOp' = [op |-> "reset_received", before |-> <<k, controllers>>]
    /\ UNCHANGED controllersFrame

\* usb_bus_reset(device): usb_reset_all_endpoints,
\* usb_set_address_immediate(device, 0), usb_set_configuration(device, 0).
usb_bus_reset(all, device) ==
    [all EXCEPT ![device].endpoints_enabled = FALSE,
                ![device].usbadr = 0,
                ![device].active_configuration = 0]

\* usb_get_status(device): the status bits are read and written back to
\* clear them.
StatusRead(all, device) ==
    [all EXCEPT ![device].usb_reset_received = FALSE]

\* The first definition of usb_device_isr:
\* "if( status & USB0_USBSTS_D_URI ) usb_bus_reset(&usb_peripherals[0]);"
usb_device_isr_first(device) ==
    /\ controllers' =
           IF controllers[device].usb_reset_received
           THEN usb_bus_reset(StatusRead(controllers, device), 0)
           ELSE controllers
    /\ lastOp' = [op |-> "device_isr", before |-> <<device, controllers>>]
    /\ UNCHANGED controllersFrame

\* The second definition of usb_device_isr:
\* "if (status.usb_reset_received) usb_bus_reset(device);"
usb_device_isr_second(device) ==
    /\ controllers' =
           IF controllers[device].usb_reset_received
           THEN usb_bus_reset(StatusRead(controllers, device), device)
           ELSE controllers
    /\ lastOp' = [op |-> "device_isr", before |-> <<device, controllers>>]
    /\ UNCHANGED controllersFrame

NextControllers ==
    \/ \E k \in Controllers, value \in 1..NumConfigurations :
           ControllerEnumerated(k, value)
    \/ \E k \in Controllers : HwResetReceived(k)
    \/ \E k \in Controllers : usb_device_isr_first(k)
    \/ \E k \in Controllers : usb_device_isr_second(k)

SpecControllers == Init /\ [][NextControllers]_vars

(***************************************************************************)
(* The interrupt state around usb_endpoint_disable: the controller raises  *)
(* status, setup and complete bits, the driver enables endpoints and NAK   *)
(* interrupts, and an endpoint is disabled.                                *)
(***************************************************************************)
\* The number of events before the endpoint is disabled.
MaxInterruptEvents == 3

InterruptEvents == IF lastOp.op = "raised" THEN lastOp.before[1] ELSE 0

InterruptEvent ==
    /\ lastOp.op \in {"none", "raised"}
    /\ InterruptEvents < MaxInterruptEvents
    /\ lastOp' = [op |-> "raised", before |-> <<InterruptEvents + 1>>]
    /\ UNCHANGED <<hostVars, poolVars, bytesVars, deviceFields, hwAddress>>

interruptRegisters == <<usbsts, endptsetupstat, endptcomplete, endptctrl>>

\* What none of the events below and no disabling of an endpoint changes.
interruptFrame == <<stdVars, endptprime, endptflush, endptstat, usbcmd_atdtw,
                    epVars, tdVars, hwVars, isrVars, appVars, nSetups, nTds,
                    usbintr, gsPc, gsStatus, gsReturned, gsRaised,
                    epTransferComplete, dPc, dCall, dI, dIn, dSnapshot, dLog,
                    nCompletions>>

\* The controller raises a bit of USBSTS.
HwStatusPending(bit) ==
    /\ InterruptEvent
    /\ usbsts' = usbsts \cup {bit}
    /\ UNCHANGED <<endptsetupstat, endptcomplete, endptctrl, interruptFrame>>

\* The controller raises the ENDPTSETUPSTAT bit of control endpoint i.
HwSetupPending(i) ==
    /\ InterruptEvent
    /\ endptsetupstat' = endptsetupstat \cup {i}
    /\ UNCHANGED <<usbsts, endptcomplete, endptctrl, interruptFrame>>

\* The controller raises the ENDPTCOMPLETE bit of an endpoint.
HwCompletePending(address) ==
    /\ InterruptEvent
    /\ endptcomplete' = endptcomplete \cup {address}
    /\ UNCHANGED <<usbsts, endptsetupstat, endptctrl, interruptFrame>>

\* usb_endpoint_enable(endpoint)
EndpointEnabled(address) ==
    /\ InterruptEvent
    /\ usb_endpoint_enable(address)

\* usb_in_endpoint_enable_nak_interrupt(endpoint)
usb_in_endpoint_enable_nak_interrupt(address) ==
    /\ lastOp.op \in {"none", "raised"}
    /\ InterruptEvents < MaxInterruptEvents
    /\ lastOp' = [op |-> "raised", before |-> <<InterruptEvents + 1>>]
    /\ endptnaken' = endptnaken \cup {16 + (address % 128)}
    /\ UNCHANGED <<hostVars, devVars, poolVars, bytesVars, statusVars, irqVars,
                   descriptorTables, hwAddress, walkVars, schVars, controllers,
                   commsVars, sctVars, endptnak>>

\* usb_clear_pending_interrupts(mask, device), its first two statements:
\* "device->reg->endptnak = mask; device->reg->endptnaken = mask;".
usb_clear_pending_interrupts_nak(address) ==
    /\ endptnak' = WriteOneToClear(endptnak, {EndpointMaskBit(address)})
    /\ endptnaken' = {EndpointMaskBit(address)}

\* usb_endpoint_disable(endpoint) with every register it writes.
EndpointDisabled(address) ==
    /\ lastOp.op \in {"none", "raised"}
    /\ usb_endpoint_disable(address)
    /\ usb_clear_pending_interrupts_nak(address)
    /\ lastOp' = [op |-> "disabled",
                  before |-> <<address, usbsts, endptsetupstat, endptcomplete,
                               endptctrl, endptnaken>>]
    /\ UNCHANGED <<descriptorTables, hwAddress, walkVars, schVars, controllers,
                   commsVars, sctVars>>

NextDisable ==
    \/ \E bit \in StatusBits : HwStatusPending(bit)
    \/ \E i \in EndpointNumbers : HwSetupPending(i)
    \/ \E a \in EndpointAddresses : HwCompletePending(a)
    \/ \E a \in EndpointAddresses : EndpointEnabled(a)
    \/ \E a \in {usb_endpoint_address(TRUE, i) : i \in EndpointNumbers} :
           usb_in_endpoint_enable_nak_interrupt(a)
    \/ \E a \in EndpointAddresses : EndpointDisabled(a)

SpecDisable == Init /\ [][NextDisable]_vars

(***************************************************************************)
(* Properties of the queue-head encoding.                                  *)
(***************************************************************************)
\* C31: after usb_host_set_up_asynchronous_endpoint_queue the queue head's
\* speed field is 0 for full speed, 1 for low speed and 2 for high speed;
\* its control-endpoint flag is 1 exactly when the endpoint is a control
\* endpoint and the speed is not high speed; its data-toggle-control bit is
\* the negation of handle_data_toggle; and the overlay's next and
\* alternate-next pointers terminate.
C31_QueueHeadEncoding ==
    (lastOp.op = "set_up" /\ lastOp.before[1] # NULL) =>
        LET qh == lastOp.before[1]
            endpoint_speed == lastOp.before[2]
            is_control_endpoint == lastOp.before[3]
            handle_data_toggle == lastOp.before[4]
            e == qhEndpoint[qh]
        IN /\ endpoint_speed = USB_SPEED_FULL => e.endpoint_speed = 0
           /\ endpoint_speed = USB_SPEED_LOW  => e.endpoint_speed = 1
           /\ endpoint_speed = USB_SPEED_HIGH => e.endpoint_speed = 2
           /\ e.control_endpoint_flag = 1 <=>
                  (is_control_endpoint /\ endpoint_speed # USB_SPEED_HIGH)
           /\ e.control_endpoint_flag \in {0, 1}
           /\ e.data_toggle_control = (IF handle_data_toggle THEN 0 ELSE 1)
           /\ qhOverlayNext[qh] = TD_TERMINATE
           /\ e.alternate_next_dtd_pointer = TD_TERMINATE

\* A low-speed control endpoint without data-toggle handling was set up
\* after a high-speed control endpoint: flags 1 and 0, speed bits 1 and 2.
C31_Witness ==
    /\ lastOp.op = "set_up"
    /\ lastOp.before = <<lastOp.before[1], USB_SPEED_LOW, TRUE, FALSE>>
    /\ lastOp.before[1] # NULL
    /\ qhEndpoint[lastOp.before[1]].control_endpoint_flag = 1
    /\ qhEndpoint[lastOp.before[1]].endpoint_speed = 1
    /\ \E q \in QHs : /\ qhEndpoint[q].endpoint_speed = 2
                       /\ qhEndpoint[q].control_endpoint_flag = 0
                       /\ qhEndpoint[q].data_toggle_control = 0

(***************************************************************************)
(* Properties of usb_endpoint_descriptor.                                  *)
(***************************************************************************)
\* C32: usb_endpoint_descriptor terminates for every active configuration,
\* one with a subordinate descriptor of length 0 or of a length that runs
\* past total_length included, and never examines a descriptor that starts
\* at or beyond total_length bytes from the start of the configuration.
C32_WalkTerminatesWithinTotalLength ==
    /\ (epdPc = "walk") ~> (epdPc = "returned")
    /\ [](\A offset \in epdExamined :
             offset < WalkTotalLength(epdConfiguration))

(***************************************************************************)
(* Properties of usb_host_transfer_schedule under preemption.              *)
(***************************************************************************)
\* C33: with the reaper interrupt taken at any point of
\* usb_host_transfer_schedule outside its interrupt-disabled section, once
\* both have returned every transfer object is on exactly one of the
\* transfer freelist and the pending list.
C33_PoolConsistentUnderPreemption ==
    schPc = "idle" =>
        \A transfer \in Transfers :
            OnTransferFreelist(transfer) <=> ~OnPendingList(transfer)

(***************************************************************************)
(* Properties of the setup intake when the host sends SETUP again.         *)
(***************************************************************************)
\* C34: whenever setup_complete is invoked for a control endpoint, the
\* setup packet cached in the OUT endpoint and the one cached in its IN
\* sibling are identical and are one setup packet the host sent, even when
\* the controller writes a new SETUP into the queue head while the ISR
\* copies.
C34_SetupCachesAgreeAtCallback ==
    (IsrStatement = "setup_complete" /\ epSetupComplete[isrI]) =>
        /\ epSetup[usb_endpoint_address(FALSE, isrI)]
               = epSetup[usb_endpoint_address(TRUE, isrI)]
        /\ \E src \in ResentSetupPackets :
               epSetup[usb_endpoint_address(FALSE, isrI)] = usb_copy_setup(src)

(***************************************************************************)
(* Properties of the two definitions of usb_check_for_setup_events.        *)
(***************************************************************************)
\* C35: for every value of ENDPTSETUPSTAT the two definitions of
\* usb_check_for_setup_events perform the same setup copies, setup-status
\* clears, endpoint flushes and setup_complete invocations, in the same
\* order.
C35_SetupEventVersionsAgree ==
    lastOp.op = "check_for_setup_events" =>
        lastOp.before[3] = lastOp.before[4]

(***************************************************************************)
(* Properties of usb_device_isr on two controllers.                        *)
(***************************************************************************)
\* C36: when usb_device_isr services controller k with the USB-reset status
\* bit set, the bus reset (endpoints disabled, address 0, configuration 0)
\* is applied to controller k and the other controller's registers and
\* active configuration are left unchanged.
C36_ResetAppliedToServicedController ==
    (/\ lastOp.op = "device_isr"
     /\ lastOp.before[2][lastOp.before[1]].usb_reset_received) =>
        LET k == lastOp.before[1]
            before == lastOp.before[2]
        IN /\ ~controllers[k].endpoints_enabled
           /\ controllers[k].usbadr = 0
           /\ controllers[k].active_configuration = 0
           /\ controllers[1 - k] = before[1 - k]

(***************************************************************************)
(* Properties of usb_endpoint_disable.                                     *)
(***************************************************************************)
EnableBit(address) == IF address >= 128 THEN "TXE" ELSE "RXE"

\* C37: usb_endpoint_disable(E) clears E's enable bit and E's own pending
\* ENDPTCOMPLETE bit and changes no other interrupt state: the USBSTS bits,
\* the ENDPTNAKEN mask, the ENDPTSETUPSTAT bits and the enable and complete
\* bits of every other endpoint are after the call as before it.
C37_DisableTouchesOnlyItsEndpoint ==
    lastOp.op = "disabled" =>
        LET E == lastOp.before[1] IN
        /\ EnableBit(E) \notin endptctrl[E % 128]
        /\ E \notin endptcomplete
        /\ usbsts = lastOp.before[2]
        /\ endptsetupstat = lastOp.before[3]
        /\ endptcomplete \ {E} = lastOp.before[4] \ {E}
        /\ \A other \in EndpointAddresses \ {E} :
               EnableBit(other) \in endptctrl[other % 128]
                   <=> EnableBit(other) \in lastOp.before[5][other % 128]
        /\ endptnaken = lastOp.before[6]

(***************************************************************************)
(* Properties of GET_DESCRIPTOR for the configurations of the two speeds.  *)
(***************************************************************************)
\* The positions in the pool of the other speed of the configurations with
\* value v.
OtherSpeedConfigurationsOfValue(v) ==
    {i \in 1..(Len(ConfigurationPool(usb_other_device_speed)) - 1) :
        ConfigurationPool(usb_other_device_speed)[i] = v}

\* C38: for every wire descriptor index i,
\* GET_DESCRIPTOR(OTHER_SPEED_CONFIGURATION, i) resolves the configuration
\* value that GET_DESCRIPTOR(CONFIGURATION, i) resolves, i + 1, the first in
\* the pool of the current speed and the second in the pool of the other
\* speed.
C38_BothSpeedsResolveSameValue ==
    /\ (/\ GetDescriptorOf(USB_DESCRIPTOR_TYPE_CONFIGURATION)
         /\ ConfigurationsOfValue(RequestedIndex + 1) # {})
        => \E i \in ConfigurationsOfValue(RequestedIndex + 1) :
               stdReply = SentUpTo(ConfigurationDescriptor(
                              [pool |-> usb_current_device_speed, index |-> i]),
                              RequestedLength)
    /\ (/\ GetDescriptorOf(USB_DESCRIPTOR_TYPE_OTHER_SPEED_CONFIGURATION)
         /\ OtherSpeedConfigurationsOfValue(RequestedIndex + 1) # {})
        => \E i \in OtherSpeedConfigurationsOfValue(RequestedIndex + 1) :
               stdReply = SentUpTo(ConfigurationDescriptor(
                              [pool |-> usb_other_device_speed, index |-> i]),
                              RequestedLength)

(***************************************************************************)
(* The response of a command transaction (comms_start_response and the     *)
(* comms_response_add_<type> functions).                                    *)
(***************************************************************************)
\* The largest data_out_max_length a backend hands to a verb here.
MaxResponseLength == 8

\* The verb stops adding once its position has reached this offset.
MaxResponseBytes == 12

\* sizeof(type) of the types COMMS_DEFINE_RESPONSE_HANDLER is expanded for:
\* uint8_t and int8_t, uint16_t and int16_t, uint32_t and int32_t.
ResponseTypeSizes == {1, 2, 4}

\* The backend hands a transaction to the handler of a verb: a buffer of
\* data_out_max_length bytes that will receive the output.
HostCommand(data_out_max_length) ==
    /\ transPc = "none"
    /\ transPc' = "handling"
    /\ trans' = [data_out_length |-> 0,
                 data_out_max_length |-> data_out_max_length]
    /\ data_out' = 0
    /\ dataOutWritten' = {}
    /\ UNCHANGED commsFrame

\* void *comms_start_response(struct command_transaction *trans)
comms_start_response ==
    /\ transPc \in {"handling", "started"}
    /\ transPc' = "started"
    /\ trans' = [trans EXCEPT !.data_out_length = 0]
    /\ data_out' = 0
    /\ UNCHANGED <<dataOutWritten, commsFrame>>

\* void *comms_response_add_<type>(trans, void **data_out, type response)
comms_response_add(size) ==
    /\ transPc = "started"
    /\ data_out < MaxResponseBytes
    /\ IF trans.data_out_max_length < size
       THEN UNCHANGED <<trans, data_out, dataOutWritten>>
       ELSE /\ trans' = [trans EXCEPT !.data_out_length = @ + size]
            /\ dataOutWritten' = dataOutWritten \cup
                                     (data_out .. (data_out + size - 1))
            /\ data_out' = data_out + size
    /\ UNCHANGED <<transPc, commsFrame>>

NextComms ==
    \/ \E max \in 0..MaxResponseLength : HostCommand(max)
    \/ comms_start_response
    \/ \E size \in ResponseTypeSizes : comms_response_add(size)

SpecComms == Init /\ [][NextComms]_vars

\* C39: after comms_start_response and any number of comms_response_add
\* calls, data_out_length is at most data_out_max_length and nothing has
\* been written beyond the first data_out_max_length bytes of the buffer.
C39_ResponseStaysWithinBuffer ==
    transPc = "started" =>
        /\ trans.data_out_length <= trans.data_out_max_length
        /\ \A offset \in dataOutWritten : offset < trans.data_out_max_length

(***************************************************************************)
(* The packetization engine of Rhododendron: the events of the SCT that    *)
(* capture the end of each packet.                                         *)
(***************************************************************************)
\* The falling edges of DIR that are followed here: two groups of 14 packets
\* and the start of a third.
MaxEndOfPackets == 30

IO_PIN_NXT == 3
IO_PIN_DIR == 5

\* "for (int event = 2; event <= 15; ++event)"
FIRST_CAPTURE_EVENT == 2
LAST_CAPTURE_EVENT == 15

\* ARRAY_SIZE(packetization_end_of_packets)
CAPTURE_COUNT == 14

\* The states of the SCT: reg->state is a five-bit field.
SctStates == 0..31

\* configure_count_event(event_number, condition)
configure_count_event(event, event_number, condition) ==
    [event EXCEPT ![event_number] =
        [associated_io_pin |-> IO_PIN_NXT,
         associated_io_condition |-> condition,
         enabled_in_state |-> SctStates,
         load_state |-> FALSE,
         next_state |-> 0]]

\* configure_capture_event(event_number, current_state, next_state)
configure_capture_event(event, event_number, current_state, next_state) ==
    [event EXCEPT ![event_number] =
        [associated_io_pin |-> IO_PIN_DIR,
         associated_io_condition |-> "fall",
         enabled_in_state |-> {current_state},
         load_state |-> TRUE,
         next_state |-> next_state]]

\* configure_events(), its loop from the iteration of event_number on, with
\* the local "state".
RECURSIVE configure_capture_events(_, _, _)
configure_capture_events(event, event_number, state) ==
    IF event_number > LAST_CAPTURE_EVENT
    THEN event
    ELSE LET wraps_around == (state = 15)
         IN  configure_capture_events(
                 configure_capture_event(event, event_number, state,
                                         IF wraps_around THEN 0 ELSE state + 1),
                 event_number + 1, state + 1)

\* configure_events()
configure_events(event) ==
    configure_capture_events(
        configure_count_event(configure_count_event(event, 0, "rise"), 1, "fall"),
        FIRST_CAPTURE_EVENT, 0)

\* "reg->interrupt_on_event = (1 << 15);"
interrupt_on_event == {LAST_CAPTURE_EVENT}

\* rhododendron_start_packetization(): set_up_packetization, then state 0,
\* then the SCT is released.
rhododendron_start_packetization ==
    /\ halt_sct
    /\ sctEvent' = configure_events(sctEvent)
    /\ event_occurred' = {}
    /\ sctState' = 0
    /\ halt_sct' = FALSE
    /\ UNCHANGED <<sctNxt, sctCaptured, sctEndOfPackets,
                   new_delineation_data_available, sctFrame>>

\* The events of the SCT that an edge of a pin makes occur in the current
\* state.
EventsOn(pin, condition) ==
    {n \in DOMAIN sctEvent : /\ sctEvent[n].associated_io_pin = pin
                             /\ sctEvent[n].associated_io_condition = condition
                             /\ sctState \in sctEvent[n].enabled_in_state}

\* The SCT takes the events of an edge: it records them in event_occurred
\* and, for an event that loads the state, moves to its next_state.
SctEdge(pin, condition) ==
    LET occurred == EventsOn(pin, condition)
        loading  == {n \in occurred : sctEvent[n].load_state}
    IN  /\ ~halt_sct
        /\ event_occurred' = event_occurred \cup occurred
        /\ sctState' = IF loading = {} THEN sctState
                       ELSE sctEvent[CHOOSE n \in loading : TRUE].next_state
        /\ sctCaptured' = IF loading = {} THEN sctCaptured
                          ELSE Append(sctCaptured, CHOOSE n \in loading : TRUE)

\* NXT rises or falls.
HwNxtEdge ==
    /\ SctEdge(IO_PIN_NXT, IF sctNxt THEN "fall" ELSE "rise")
    /\ sctNxt' = ~sctNxt
    /\ UNCHANGED <<sctEvent, halt_sct, sctEndOfPackets,
                   new_delineation_data_available, sctFrame>>

\* DIR falls: a packet has ended.
HwEndOfPacket ==
    /\ sctEndOfPackets < MaxEndOfPackets
    /\ SctEdge(IO_PIN_DIR, "fall")
    /\ sctEndOfPackets' = sctEndOfPackets + 1
    /\ UNCHANGED <<sctEvent, halt_sct, sctNxt, new_delineation_data_available,
                   sctFrame>>

\* packetization_isr()
packetization_isr ==
    /\ event_occurred \cap interrupt_on_event # {}
    /\ event_occurred' = event_occurred \ {LAST_CAPTURE_EVENT}
    /\ new_delineation_data_available' = TRUE
    /\ UNCHANGED <<sctEvent, halt_sct, sctState, sctNxt, sctCaptured,
                   sctEndOfPackets, sctFrame>>

NextSct ==
    \/ rhododendron_start_packetization
    \/ HwNxtEdge
    \/ HwEndOfPacket
    \/ packetization_isr

SpecSct == Init /\ [][NextSct]_vars

\* C40: the packet-boundary state machine is cyclic: every end of packet is
\* captured, by the events 2..15 in order and by event 2 again after event
\* 15, and the state counts up on events 2-14 and is back at zero after
\* event 15.
C40_CaptureIsCyclic ==
    ~halt_sct =>
        /\ Len(sctCaptured) = sctEndOfPackets
        /\ \A k \in 1..Len(sctCaptured) :
               sctCaptured[k] = FIRST_CAPTURE_EVENT + ((k - 1) % CAPTURE_COUNT)
        /\ sctState = sctEndOfPackets % CAPTURE_COUNT

====
